---- MODULE Spec2Model ----
(***************************************************************************)
(* Model of the push-notification worker (push-service).                   *)
(*                                                                         *)
(* Spec is the message pipeline: several worker processes share one cache  *)
(* (idempotency entries and circuit-breaker records); each runs the        *)
(* consume loop of main.rs, which spawns one task per delivery; a task     *)
(* takes a semaphore permit, connects to the cache, locks the two clients, *)
(* runs process_message (utils.rs) and answers the broker.                 *)
(*                                                                         *)
(* One step of a task is one await point of the code (one cache command,   *)
(* one database insert, one broker command).  Inside Spec a breaker call   *)
(* is three steps (admission, the retried operation, recording), each      *)
(* applying the breaker's cache commands in program order up to the first  *)
(* command that fails.  Spec has no clock: every behaviour of Spec lies    *)
(* inside one idempotency TTL window, and whether the breaker timeout has  *)
(* elapsed is an input of the admission step.                              *)
(***************************************************************************)
EXTENDS Integers, Sequences, FiniteSets, TLC

VARIABLES
    idem,       \* cache: idempotency:<key> -> "absent" | "processing" | "sent" | "failed"
    cb,         \* cache: circuit:<dep>:{state,failures,successes,opened_at}
    tasks,      \* delivery tag -> the task spawned for that delivery
    delivered,  \* number of deliveries taken from the consumer streams so far
    permits,    \* worker -> free permits of its semaphore
    tmplLock,   \* worker -> tag of the task holding the template-client mutex, 0 if free
    fcmLock,    \* worker -> tag of the task holding the push-client mutex, 0 if free
    running,    \* worker -> its consumer stream is still open
    accepted,   \* key -> number of sends the push gateway accepted (2xx)
    audit,      \* <<key, status>> -> number of audit rows inserted
    dlq,        \* set of messages published to the dead-letter queue
    sentSeen,   \* key -> some check_idempotency has returned Sent
    now,        \* SystemTime::now() in seconds
    circuit,    \* cache: the four circuit:<dep>:* keys of one dependency, command by command
    calls,      \* worker instance -> its CircuitBreaker::call on that dependency
    hist,       \* what the calls on that dependency have done so far
    win,        \* worker instance -> the breaker was open and inside its timeout
                \* from the start of the instance's call until now
    retry,      \* one run of retry_with_backoff: its config, locals and result
    store,      \* cache: the entry idempotency:<key> of one key with its expiry, the
                \* cache's clock and what the RedisClient calls on it returned
    trip,       \* one DlqMessage on its way through the dead-letter queue
    wrap,       \* the calls of one client through its breaker, each around a run of
                \* retry_with_backoff, and the breaker's record
    rend        \* two calls of render_template on one template and one variables map

\* the state of the workers and of the breaker seen command by command
pvars == <<idem, cb, tasks, delivered, permits, tmplLock, fcmLock, running,
           accepted, audit, dlq, sentSeen>>
bvars == <<now, circuit, calls, hist, win>>
vars == <<idem, cb, tasks, delivered, permits, tmplLock, fcmLock, running,
          accepted, audit, dlq, sentSeen, now, circuit, calls, hist, win, retry,
          store, trip, wrap, rend>>

(***************************************************************************)
(* Bounds of the model and configuration of the program.                   *)
(***************************************************************************)
NumWorkers == 2
\* deliveries taken in all, under Spec and under SpecSerial
MaxDeliveries == 2
MaxSerialDeliveries == 3
\* deliveries taken by the one worker of SpecPool, and its prefetch_count
MaxPoolDeliveries == 3
PoolPrefetchCount == 3

\* Config: prefetch_count, worker_concurrency, circuit_breaker_*_threshold
PrefetchCount == 1
WorkerConcurrency == 2
FailureThreshold == 2
SuccessThreshold == 2
\* Config: circuit_breaker_timeout_seconds
TimeoutSeconds == 1
\* the clock's last second, the calls made through the breaker and the cache
\* commands that fail, in a run of the breaker seen command by command
MaxTime == 2
MaxCalls == 6
MaxCacheErrors == 1
\* the largest max_attempts of a RetryConfig, and the width in bits the u64
\* delays are given
MaxAttempts == 3
\* the calls a client makes through its breaker in a run
MaxWrappedCalls == 3
DelayBits == 4
\* validate_fcm_token
MinTokenLen == 20
MaxTokenLen == 200
\* Config: idempotency_ttl_seconds; the last second of the cache's clock and
\* the check_idempotency calls in a run of the idempotency store
IdempotencyTtl == 2
MaxStoreTime == 4
MaxChecks == 3
\* the longest failure_reason of a DlqMessage
MaxTextLen == 2

Workers == 1..NumWorkers
Tags == 1..(IF MaxDeliveries > MaxSerialDeliveries THEN MaxDeliveries
            ELSE MaxSerialDeliveries)
Deps == {"template_service", "fcm"}
\* the worker instances calling through the breaker of one dependency
Callers == 1..NumWorkers
Keys == {"k1"}

(***************************************************************************)
(* Strings are sequences of one-character strings.                         *)
(***************************************************************************)
Open2 == <<"{", "{">>
Close2 == <<"}", "}">>

\* s[i..] (1-based), the text from position i on
From(s, i) == SubSeq(s, i, Len(s))

StartsWith(s, pat) ==
    /\ Len(pat) <= Len(s)
    /\ SubSeq(s, 1, Len(pat)) = pat

\* str::find: position (1-based) of the first occurrence of pat in s, 0 if none
Find(s, pat) ==
    LET hits == {i \in 1..(Len(s) + 1) : StartsWith(From(s, i), pat)}
    IN IF hits = {} THEN 0 ELSE CHOOSE i \in hits : \A j \in hits : i <= j

Contains(s, pat) == Find(s, pat) # 0

\* str::replace: every non-overlapping occurrence of pat, left to right
RECURSIVE Replace(_, _, _)
Replace(s, pat, rep) ==
    IF s = <<>> THEN <<>>
    ELSE IF StartsWith(s, pat) THEN rep \o Replace(From(s, Len(pat) + 1), pat, rep)
    ELSE <<Head(s)>> \o Replace(From(s, 2), pat, rep)

\* format!("{{{{{}}}}}", key)
Placeholder(key) == Open2 \o key \o Close2

\* the string form of a JSON value; "unsupported" for arrays and objects
Stringify(value) ==
    CASE value.type = "string" -> [ok |-> TRUE, text |-> value.s]
      [] value.type = "number" -> [ok |-> TRUE, text |-> value.s]
      [] value.type = "bool"   -> [ok |-> TRUE, text |-> value.s]
      [] value.type = "null"   -> [ok |-> TRUE, text |-> <<>>]
      [] OTHER                 -> [ok |-> FALSE, text |-> <<>>]

\* the substitution loop over the variables in iteration order `order`
\* (a sequence of [key, value] pairs); stops at the first unsupported value
RECURSIVE Substitute(_, _)
Substitute(text, order) ==
    IF order = <<>> THEN [kind |-> "Ok", text |-> text]
    ELSE LET r == Stringify(Head(order).value)
         IN IF ~r.ok THEN [kind |-> "Err", text |-> Head(order).key]
            ELSE Substitute(Replace(text, Placeholder(Head(order).key), r.text),
                            From(order, 2))

\* the check for an unreplaced placeholder after the loop
\* result.find("{{").unwrap(); result[start..].find("}}").unwrap()
CheckUnreplaced(result) ==
    IF Contains(result, Open2) /\ Contains(result, Close2)
    THEN LET start == Find(result, Open2)
             rel == Find(From(result, start), Close2)
         IN IF rel = 0
            THEN [kind |-> "Panic", text |-> <<>>]
            ELSE [kind |-> "Err", text |-> SubSeq(result, start, start + rel)]
    ELSE [kind |-> "Ok", text |-> result]

\* TemplateServiceClient::replace_variables
ReplaceVariables(template, order) ==
    LET r == Substitute(template, order)
    IN IF r.kind = "Ok" THEN CheckUnreplaced(r.text) ELSE r

\* TemplateServiceClient::render_template: the title, then the body
RenderTemplate(template, order) ==
    LET t == ReplaceVariables(template.title, order)
    IN IF t.kind # "Ok" THEN [kind |-> t.kind, title |-> t.text, body |-> <<>>]
       ELSE LET b == ReplaceVariables(template.body, order)
            IN IF b.kind # "Ok" THEN [kind |-> b.kind, title |-> b.text, body |-> <<>>]
               ELSE [kind |-> "Ok", title |-> t.text, body |-> b.text]

(***************************************************************************)
(* Messages and payloads.                                                  *)
(***************************************************************************)
NoMsg == [none |-> TRUE]
NoToken == [absent |-> TRUE]

\* a push token, by what validate_fcm_token looks at
GoodToken == [len |-> 20, charsOk |-> TRUE]
ShortToken == [len |-> 5, charsOk |-> TRUE]

\* variables {"n": "A"}
VarsN == {[key |-> <<"n">>, value |-> [type |-> "string", s |-> <<"A">>]]}

\* NotificationMessage, by the fields the pipeline reads
Msg(key, token, variables) == [key |-> key, token |-> token, variables |-> variables]

\* a payload: whether it is JSON at all, whether the top-level object has a
\* string field `pattern`, the NotificationMessage held by its field `data`
\* (NoMsg if there is none) and the NotificationMessage formed by its
\* top-level fields (NoMsg if they do not form one)
Payload(json, pattern, data, flat) ==
    [json |-> json, pattern |-> pattern, data |-> data, flat |-> flat]

Payloads ==
    { Payload(FALSE, FALSE, NoMsg, NoMsg),                      \* "{ not json"
      Payload(TRUE, FALSE, NoMsg, Msg("k1", GoodToken, VarsN)), \* the flat message shape
      Payload(TRUE, TRUE, Msg("k1", NoToken, VarsN), NoMsg),    \* {pattern, data}, no push_token
      Payload(TRUE, TRUE, Msg("k1", ShortToken, VarsN), NoMsg), \* {pattern, data}, short token
      Payload(TRUE, TRUE, Msg("k1", GoodToken, VarsN), NoMsg) } \* {pattern, data}, well-formed

\* the template contents the template service may answer with
Templates ==
    { [title |-> <<"{", "{", "n", "}", "}">>, body |-> <<"b">>],
      [title |-> <<"{", "{", "m", "}", "}">>, body |-> <<"b">>],
      [title |-> <<"}", "}", "{", "{">>, body |-> <<"b">>] }

\* the orders in which a HashMap holding the pairs of S may be iterated
RECURSIVE Orders(_)
Orders(S) ==
    IF S = {} THEN {<<>>}
    ELSE UNION {{<<x>> \o o : o \in Orders(S \ {x})} : x \in S}

\* serde_json::from_str::<Envelope>(payload)
ParseEnvelope(p) ==
    IF p.json /\ p.pattern /\ p.data # NoMsg
    THEN [ok |-> TRUE, msg |-> p.data]
    ELSE [ok |-> FALSE, msg |-> NoMsg]

\* serde_json::from_str::<NotificationMessage>(payload)
ParseNotification(p) ==
    IF p.json /\ p.flat # NoMsg
    THEN [ok |-> TRUE, msg |-> p.flat]
    ELSE [ok |-> FALSE, msg |-> NoMsg]

\* a validation that accepts every push token
ValidateFcmTokenAny(token) == TRUE

\* validate_fcm_token
ValidateFcmToken(token) ==
    /\ token.len # 0
    /\ token.len >= MinTokenLen
    /\ token.len <= MaxTokenLen
    /\ token.charsOk

(***************************************************************************)
(* The idempotency store.                                                  *)
(***************************************************************************)
\* check_idempotency reporting an unknown cached value as Failed
CheckIdempotencyUnknownFailed(value) ==
    CASE value = "absent"     -> "NotFound"
      [] value = "processing" -> "Processing"
      [] value = "sent"       -> "Sent"
      [] value = "failed"     -> "Failed"
      [] OTHER                -> "Failed"

\* RedisClient::check_idempotency on the cached value
CheckIdempotency(value) ==
    CASE value = "absent"     -> "NotFound"
      [] value = "processing" -> "Processing"
      [] value = "sent"       -> "Sent"
      [] value = "failed"     -> "Failed"
      [] OTHER                -> "NotFound"

\* the match at the top of process_message: the statuses that skip the message
IsDuplicateSentOnly(status) == status = "Sent"
\* a match that also leaves process_message when the check failed
IsDuplicateOrError(status) == status \in {"Sent", "Processing", "Error"}
IsDuplicate(status) == status \in {"Sent", "Processing"}

(***************************************************************************)
(* The circuit breaker, on the cache record c of one dependency.  f is the *)
(* position of the first cache command that fails in this part of the call *)
(* (0: none fails); the commands before it have taken effect.              *)
(***************************************************************************)
\* CircuitState::from_string
FromString(s) ==
    CASE s = "open"      -> "Open"
      [] s = "half_open" -> "HalfOpen"
      [] OTHER           -> "Closed"

CbInit == [state |-> "absent", failures |-> 0, successes |-> 0, opened |-> FALSE]

\* CircuitBreaker::call up to the operation: "run" (invoke the operation),
\* "open" (rejected) or "error" (a cache command failed)
Admit(c, f, elapsed) ==
    IF f = 1 THEN [cb |-> c, out |-> "error"]                       \* get_state
    ELSE IF FromString(c.state) = "Open"
    THEN IF f = 2 THEN [cb |-> c, out |-> "error"]                  \* should_attempt_reset
         ELSE IF c.opened /\ elapsed
         THEN IF f = 3 THEN [cb |-> c, out |-> "error"]             \* set_state(HalfOpen)
              ELSE [cb |-> [c EXCEPT !.state = "half_open"], out |-> "run"]
         ELSE [cb |-> c, out |-> "open"]
    ELSE [cb |-> c, out |-> "run"]

\* CircuitBreaker::reset_counters, after set_state(Closed) at position 3
ResetCounters(c, f) ==
    IF f = 4 THEN [cb |-> c, ok |-> FALSE]
    ELSE LET c1 == [c EXCEPT !.failures = 0]
         IN IF f = 5 THEN [cb |-> c1, ok |-> FALSE]
            ELSE LET c2 == [c1 EXCEPT !.successes = 0]
                 IN IF f = 6 THEN [cb |-> c2, ok |-> FALSE]
                    ELSE [cb |-> [c2 EXCEPT !.opened = FALSE], ok |-> TRUE]

\* CircuitBreaker::record_success
RecordSuccess(c, f) ==
    IF f = 1 THEN [cb |-> c, ok |-> FALSE]                          \* get_state
    ELSE IF FromString(c.state) = "HalfOpen"
    THEN IF f = 2 THEN [cb |-> c, ok |-> FALSE]                     \* increment_success_count
         ELSE LET c1 == [c EXCEPT !.successes = @ + 1]
              IN IF c1.successes >= SuccessThreshold
                 THEN IF f = 3 THEN [cb |-> c1, ok |-> FALSE]       \* set_state(Closed)
                      ELSE ResetCounters([c1 EXCEPT !.state = "closed"], f)
                 ELSE [cb |-> c1, ok |-> TRUE]
    ELSE IF FromString(c.state) = "Closed"
    THEN IF f = 2 THEN [cb |-> c, ok |-> FALSE]                     \* reset_failure_count
         ELSE [cb |-> [c EXCEPT !.failures = 0], ok |-> TRUE]
    ELSE [cb |-> c, ok |-> TRUE]

\* set_state(Open) at position p, then set_opened_at
Trip(c, f, p) ==
    IF f = p THEN [cb |-> c, ok |-> FALSE]
    ELSE LET c1 == [c EXCEPT !.state = "open"]
         IN IF f = p + 1 THEN [cb |-> c1, ok |-> FALSE]
            ELSE [cb |-> [c1 EXCEPT !.opened = TRUE], ok |-> TRUE]

\* CircuitBreaker::record_failure
RecordFailure(c, f) ==
    IF f = 1 THEN [cb |-> c, ok |-> FALSE]                          \* get_state
    ELSE IF FromString(c.state) = "HalfOpen"
    THEN Trip(c, f, 2)
    ELSE IF f = 2 THEN [cb |-> c, ok |-> FALSE]                     \* incr failures
         ELSE LET c1 == [c EXCEPT !.failures = @ + 1]
              IN IF f = 3 THEN [cb |-> c1, ok |-> FALSE]            \* expire failures
                 ELSE IF c1.failures >= FailureThreshold
                 THEN Trip(c1, f, 4)
                 ELSE [cb |-> c1, ok |-> TRUE]

\* positions at which a cache command of one part of a breaker call can fail
\* (record_success issues at most six commands)
FailAt == 0..6

(***************************************************************************)
(* Tasks.                                                                  *)
(***************************************************************************)
\* the task of a delivery that has not been taken from the stream yet
NoTask ==
    [ w |-> 0, payload |-> Payload(FALSE, FALSE, NoMsg, NoMsg), pc |-> "undelivered",
      chk |-> "none", res |-> "none", retState |-> "none", response |-> "none",
      reason |-> "none", opOk |-> FALSE, afterSent |-> FALSE,
      wrote |-> FALSE, fetched |-> FALSE, fetchOk |-> FALSE, rendered |-> FALSE,
      gwInvoked |-> FALSE, gwAccepted |-> FALSE,
      audited |-> FALSE, audits |-> <<>>, published |-> FALSE, noConn |-> FALSE ]

\* what is left of task t once its future is gone without answering the
\* broker: a delivery of its worker that stays unanswered
Dropped(t, pc) == [NoTask EXCEPT !.w = tasks[t].w, !.pc = pc]

\* what is left of a task that answered the broker and ended
Gone == [NoTask EXCEPT !.pc = "ended"]

\* the message process_message works on (the envelope's data)
MsgOf(t) == ParseEnvelope(tasks[t].payload).msg
KeyOf(t) == MsgOf(t).key
\* its variables map (empty while there is no message)
VariablesOf(t) == IF ParseEnvelope(tasks[t].payload).ok THEN MsgOf(t).variables ELSE {}

\* the task's position is one where the spawned future is still alive
Finished == {"undelivered", "ended", "panicked", "cancelled"}
Alive(t) == tasks[t].pc \notin Finished

\* positions inside process_message
InProcess ==
    {"check", "mark_processing", "t_enter", "t_op", "t_record", "s_enter", "s_op",
     "s_record", "mark_sent", "audit_sent", "mark_failed", "audit_failed"}

\* the cache keys of the dependency seen command by command: no key exists;
\* failExp is the second at which the failures key expires, opened the value
\* of opened_at (-1: none)
CircuitInit == [state |-> "absent", failures |-> 0, failExp |-> -1, successes |-> 0,
                opened |-> -1]

\* a worker instance that is not inside CircuitBreaker::call
NoCall == [pc |-> "idle", opOk |-> FALSE, invoked |-> 0, result |-> "none", err |-> FALSE,
           count |-> 0, reset |-> FALSE, trial |-> FALSE, ref |-> -1]

\* nothing has been called yet
HistInit == [started |-> 0, errs |-> 0, overlap |-> FALSE, consec |-> 0, lapsed |-> FALSE,
             episode |-> 0, reopened |-> -1]

\* the values a u64 delay takes in the model
DelayLimit == 2 ^ DelayBits

\* the RetryConfig values a run is started with (Config puts no bound on them)
RetryConfigs ==
    [max_attempts : 0..MaxAttempts,
     initial_delay_ms : {0, 1, DelayLimit - 4},
     max_delay_ms : {0, 3, DelayLimit - 1},
     backoff_multiplier : {0, 1, 2}]

\* retry_with_backoff has not been called
NoRetry ==
    [pc |-> "idle",
     config |-> [max_attempts |-> 0, initial_delay_ms |-> 0, max_delay_ms |-> 0,
                 backoff_multiplier |-> 0],
     attempt |-> 0, delay_ms |-> 0, invoked |-> 0, slept |-> <<>>, result |-> "none",
     outcomes |-> <<>>, value |-> 0]

\* no entry under the key; nothing written or checked yet.  written is the
\* status of the last mark_* that took effect and writtenAt its second;
\* foreign: the last write was not one of this service; lapsed: the entry
\* expired since the last write; checked and prev are the statuses returned
\* by the last two checks since the last write or expiry
StoreInit ==
    [value |-> "absent", expires |-> -1, time |-> 0,
     written |-> "none", writtenAt |-> -1, foreign |-> FALSE, lapsed |-> FALSE,
     checked |-> "none", prev |-> "none", checkedAt |-> -1, checks |-> 0,
     result |-> "none"]

\* nothing has been published to the dead-letter queue
NoTrip == [pc |-> "idle", message |-> NoMsg, bytes |-> <<>>, decoded |-> NoMsg]

\* a client that has made no call through its breaker: cb is the breaker's
\* record and before its value when the current call started, n the calls
\* made, out the breaker's decision on the current call, recorded the
\* record_success / record_failure calls it made and recOk whether their
\* cache commands succeeded
NoWrap ==
    [pc |-> "idle", cb |-> CbInit, before |-> CbInit, n |-> 0, out |-> "none",
     recorded |-> <<>>, recOk |-> FALSE, result |-> "none"]

\* render_template has not been called; first and second are what its two
\* calls returned
NoRender ==
    [pc |-> "idle", template |-> [title |-> <<>>, body |-> <<>>], variables |-> {},
     first |-> [kind |-> "none"], second |-> [kind |-> "none"]]

Init ==
    /\ idem = [k \in Keys |-> "absent"]
    /\ cb = [d \in Deps |-> CbInit]
    /\ tasks = [t \in Tags |-> NoTask]
    /\ delivered = 0
    /\ permits = [w \in Workers |-> WorkerConcurrency]
    /\ tmplLock = [w \in Workers |-> 0]
    /\ fcmLock = [w \in Workers |-> 0]
    /\ running = [w \in Workers |-> TRUE]
    /\ accepted = [k \in Keys |-> 0]
    /\ audit = [r \in Keys \X {"sent", "failed"} |-> 0]
    /\ dlq = {}
    /\ sentSeen = [k \in Keys |-> FALSE]
    /\ now = 0
    /\ circuit = CircuitInit
    /\ calls = [c \in Callers |-> NoCall]
    /\ hist = HistInit
    /\ win = [c \in Callers |-> FALSE]
    /\ retry = NoRetry
    /\ store = StoreInit
    /\ trip = NoTrip
    /\ wrap = NoWrap
    /\ rend = NoRender

\* process_message returns `res`; the state of the key at that moment is kept
Return(t, res, state) ==
    [tasks EXCEPT ![t].pc = "respond", ![t].res = res, ![t].retState = state]

\* the guards of task t are dropped and its permit is kept
ReleaseWithoutPermit(t) ==
    LET w == tasks[t].w
    IN /\ permits' = permits
       /\ tmplLock' = [tmplLock EXCEPT ![w] = IF @ = t THEN 0 ELSE @]
       /\ fcmLock' = [fcmLock EXCEPT ![w] = IF @ = t THEN 0 ELSE @]

\* the guards and the permit of task t are dropped
Release(t) ==
    LET w == tasks[t].w
    IN /\ permits' = [permits EXCEPT ![w] = @ + 1]
       /\ tmplLock' = [tmplLock EXCEPT ![w] = IF @ = t THEN 0 ELSE @]
       /\ fcmLock' = [fcmLock EXCEPT ![w] = IF @ = t THEN 0 ELSE @]

(***************************************************************************)
(* The dispatcher (main.rs).                                               *)
(***************************************************************************)
\* deliveries of worker w that the broker has handed out and not seen answered
Unacked(w) == {t \in Tags : tasks[t].w = w /\ tasks[t].response = "none"}

\* the task answers its delivery with a broker command; its locals are alive
\* until the future ends
Answer(t, response) == [tasks EXCEPT ![t].pc = "answered", ![t].response = response]

\* consumer.next() yields a delivery (the broker hands out at most
\* prefetch_count unanswered ones per channel); the loop spawns its task.
\* `limit` bounds the deliveries of a run of the model.
DeliverWith(w, p, limit, prefetch_count) ==
    /\ running[w]
    /\ delivered < limit
    /\ delivered < Cardinality(Tags)
    /\ Cardinality(Unacked(w)) < prefetch_count
    /\ delivered' = delivered + 1
    /\ tasks' = [tasks EXCEPT ![delivered + 1] = [NoTask EXCEPT !.w = w, !.payload = p,
                                                                !.pc = "acquire"]]
    /\ UNCHANGED <<idem, cb, permits, tmplLock, fcmLock, running, accepted, audit, dlq,
                   sentSeen>>
    /\ UNCHANGED <<bvars, retry, store, trip, wrap, rend>>

DeliverUpTo(w, p, limit) == DeliverWith(w, p, limit, PrefetchCount)

Deliver(w, p) == DeliverUpTo(w, p, MaxDeliveries)

\* the payloads of the redeliveries of one well-formed notification
Redeliveries == {p \in Payloads : ParseEnvelope(p).ok /\ p.data.token = GoodToken}

\* a redelivery that starts when no other task is alive in any worker
DeliverSerial(w, p) ==
    /\ \A t \in Tags : ~Alive(t)
    /\ DeliverUpTo(w, p, MaxSerialDeliveries)

\* consumer.next() yields None: main returns and the runtime drops every task
\* of this process at its current await point
StreamEnd(w) ==
    /\ running[w]
    /\ running' = [running EXCEPT ![w] = FALSE]
    /\ tasks' = [t \in Tags |->
                    IF tasks[t].w = w /\ Alive(t)
                    THEN Dropped(t, "cancelled")
                    ELSE tasks[t]]
    /\ permits' = [permits EXCEPT ![w] = WorkerConcurrency]
    /\ tmplLock' = [tmplLock EXCEPT ![w] = 0]
    /\ fcmLock' = [fcmLock EXCEPT ![w] = 0]
    /\ UNCHANGED <<idem, cb, delivered, accepted, audit, dlq, sentSeen>>
    /\ UNCHANGED <<bvars, retry, store, trip, wrap, rend>>

\* semaphore.acquire()
Acquire(t) ==
    /\ tasks[t].pc = "acquire"
    /\ permits[tasks[t].w] > 0
    /\ permits' = [permits EXCEPT ![tasks[t].w] = @ - 1]
    /\ tasks' = [tasks EXCEPT ![t].pc = "connect"]
    /\ UNCHANGED <<idem, cb, delivered, tmplLock, fcmLock, running, accepted, audit, dlq,
                   sentSeen>>
    /\ UNCHANGED <<bvars, retry, store, trip, wrap, rend>>

\* a task that goes on to the mutexes and process_message without its
\* cache connection
ConnectFailedContinues(t) ==
    [tasks EXCEPT ![t].pc = "lock_template", ![t].noConn = TRUE]

\* the Err arm of RedisClient::connect: reject(tag, requeue = true), return
ConnectFailed(t) == [Answer(t, "requeue") EXCEPT ![t].noConn = TRUE]

\* RedisClient::connect; on failure reject(tag, requeue = true) and return
Connect(t, ok) ==
    /\ tasks[t].pc = "connect"
    /\ tasks' = IF ok THEN [tasks EXCEPT ![t].pc = "lock_template"]
                ELSE ConnectFailed(t)
    /\ UNCHANGED <<idem, cb, delivered, permits, tmplLock, fcmLock, running, accepted,
                   audit, dlq, sentSeen>>
    /\ UNCHANGED <<bvars, retry, store, trip, wrap, rend>>

\* a lock() that never waits
FreeAlways(lock, w) == TRUE

\* Mutex::lock() returns its guard: no task of worker w holds the mutex
Free(lock, w) == lock[w] = 0

\* template_service_client.lock()
LockTemplate(t) ==
    /\ tasks[t].pc = "lock_template"
    /\ Free(tmplLock, tasks[t].w)
    /\ tmplLock' = [tmplLock EXCEPT ![tasks[t].w] = t]
    /\ tasks' = [tasks EXCEPT ![t].pc = "lock_fcm"]
    /\ UNCHANGED <<idem, cb, delivered, permits, fcmLock, running, accepted, audit, dlq,
                   sentSeen>>
    /\ UNCHANGED <<bvars, retry, store, trip, wrap, rend>>

\* fcm_client.lock(), then process_message up to its first await: the parse
LockFcm(t) ==
    /\ tasks[t].pc = "lock_fcm"
    /\ Free(fcmLock, tasks[t].w)
    /\ fcmLock' = [fcmLock EXCEPT ![tasks[t].w] = t]
    /\ LET e == ParseEnvelope(tasks[t].payload)
       IN tasks' = IF e.ok
                   THEN [tasks EXCEPT ![t].pc = "check",
                                      ![t].afterSent = sentSeen[e.msg.key]]
                   ELSE Return(t, "MalformedMessage", "none")
    /\ UNCHANGED <<idem, cb, delivered, permits, tmplLock, running, accepted, audit, dlq,
                   sentSeen>>
    /\ UNCHANGED <<bvars, retry, store, trip, wrap, rend>>

(***************************************************************************)
(* process_message (utils.rs).  `ok` is whether the awaited command        *)
(* succeeded.                                                              *)
(***************************************************************************)
\* check_idempotency(key) and the match on its result
Check(t, ok) ==
    /\ tasks[t].pc = "check"
    /\ LET k == KeyOf(t)
           status == IF ok THEN CheckIdempotency(idem[k]) ELSE "Error"
       IN /\ tasks' = IF IsDuplicate(status)
                      THEN [Return(t, "Ok", idem[k]) EXCEPT ![t].chk = status]
                      ELSE [tasks EXCEPT ![t].pc = "mark_processing", ![t].chk = status]
          /\ sentSeen' = [sentSeen EXCEPT ![k] = @ \/ status = "Sent"]
    /\ UNCHANGED <<idem, cb, delivered, permits, tmplLock, fcmLock, running, accepted,
                   audit, dlq>>
    /\ UNCHANGED <<bvars, retry, store, trip, wrap, rend>>

\* mark_as_processing(key)?, then the push_token lookup and validate_fcm_token
MarkProcessing(t, ok) ==
    /\ tasks[t].pc = "mark_processing"
    /\ LET k == KeyOf(t)
           token == MsgOf(t).token
       IN IF ~ok
          THEN /\ tasks' = Return(t, "MarkProcessingFailed", idem[k])
               /\ UNCHANGED idem
          ELSE /\ idem' = [idem EXCEPT ![k] = "processing"]
               /\ tasks' =
                    IF token = NoToken
                    THEN [Return(t, "MissingToken", "processing") EXCEPT ![t].wrote = TRUE]
                    ELSE IF ~ValidateFcmToken(token)
                    THEN [tasks EXCEPT ![t].pc = "mark_failed", ![t].wrote = TRUE,
                                       ![t].reason = "InvalidToken"]
                    ELSE [tasks EXCEPT ![t].pc = "t_enter", ![t].wrote = TRUE]
    /\ UNCHANGED <<cb, delivered, permits, tmplLock, fcmLock, running, accepted, audit,
                   dlq, sentSeen>>
    /\ UNCHANGED <<bvars, retry, store, trip, wrap, rend>>

\* mark_as_failed(key)? in a failure branch
MarkFailed(t, ok) ==
    /\ tasks[t].pc = "mark_failed"
    /\ LET k == KeyOf(t)
       IN IF ~ok
          THEN /\ tasks' = Return(t, "MarkFailedFailed", idem[k])
               /\ UNCHANGED idem
          ELSE /\ idem' = [idem EXCEPT ![k] = "failed"]
               /\ tasks' = [tasks EXCEPT ![t].pc = "audit_failed", ![t].wrote = TRUE]
    /\ UNCHANGED <<cb, delivered, permits, tmplLock, fcmLock, running, accepted, audit,
                   dlq, sentSeen>>
    /\ UNCHANGED <<bvars, retry, store, trip, wrap, rend>>

\* the status of the audit row written in a failure branch
FailureAuditStatusSent == "sent"
FailureAuditStatus == "failed"

\* what process_message returns after an audit write: `if let Err(log_err)`
\* only logs the error of log_notification
AfterAuditFatal(result, ok) == IF ok THEN result ELSE "AuditFailed"
AfterAudit(result, ok) == result

\* log_notification(Failed) with its error swallowed, then return Err
AuditFailed(t, ok) ==
    /\ tasks[t].pc = "audit_failed"
    /\ LET k == KeyOf(t)
       IN /\ audit' = IF ok THEN [audit EXCEPT ![<<k, FailureAuditStatus>>] = @ + 1]
                      ELSE audit
          /\ tasks' = [Return(t, AfterAudit(tasks[t].reason, ok), idem[k])
                          EXCEPT ![t].audited = ok,
                                 ![t].audits = Append(@, FailureAuditStatus)]
    /\ UNCHANGED <<idem, cb, delivered, permits, tmplLock, fcmLock, running, accepted,
                   dlq, sentSeen>>
    /\ UNCHANGED <<bvars, retry, store, trip, wrap, rend>>

\* the dependency whose breaker a position belongs to
DepAt(pc) == IF pc \in {"t_enter", "t_op", "t_record"} THEN "template_service" ELSE "fcm"

\* the failure branch of a fetch_template / send_notification that returned Err
CallFailed(t, circuitOpen) ==
    [tasks EXCEPT ![t].pc = "mark_failed",
                  ![t].reason = IF circuitOpen THEN "CircuitOpen"
                                ELSE IF DepAt(tasks[t].pc) = "fcm" THEN "PushFailed"
                                ELSE "TemplateFetch"]

\* circuit_breaker.call up to the operation
CallEnter(t, f, elapsed) ==
    /\ tasks[t].pc \in {"t_enter", "s_enter"}
    /\ LET d == DepAt(tasks[t].pc)
           r == Admit(cb[d], f, elapsed)
       IN /\ cb' = [cb EXCEPT ![d] = r.cb]
          /\ tasks' = IF r.out = "run"
                      THEN [tasks EXCEPT ![t].pc = IF d = "fcm" THEN "s_op" ELSE "t_op"]
                      ELSE CallFailed(t, r.out = "open")
    /\ UNCHANGED <<idem, delivered, permits, tmplLock, fcmLock, running, accepted, audit,
                   dlq, sentSeen>>
    /\ UNCHANGED <<bvars, retry, store, trip, wrap, rend>>

\* fetch_with_retry_static: the retried GET, to its success or its last error
FetchOp(t, ok) ==
    /\ tasks[t].pc = "t_op"
    /\ tasks' = [tasks EXCEPT ![t].pc = "t_record", ![t].opOk = ok, ![t].fetched = TRUE]
    /\ UNCHANGED <<idem, cb, delivered, permits, tmplLock, fcmLock, running, accepted,
                   audit, dlq, sentSeen>>
    /\ UNCHANGED <<bvars, retry, store, trip, wrap, rend>>

\* send_with_retry_static: the retried POST, to a 2xx or its last error
SendOp(t, ok) ==
    /\ tasks[t].pc = "s_op"
    /\ accepted' = IF ok THEN [accepted EXCEPT ![KeyOf(t)] = @ + 1] ELSE accepted
    /\ tasks' = [tasks EXCEPT ![t].pc = "s_record", ![t].opOk = ok,
                              ![t].gwInvoked = TRUE, ![t].gwAccepted = @ \/ ok]
    /\ UNCHANGED <<idem, cb, delivered, permits, tmplLock, fcmLock, running, audit, dlq,
                   sentSeen>>
    /\ UNCHANGED <<bvars, retry, store, trip, wrap, rend>>

\* try_operation after the operation: record_success()? / record_failure()?
RecordOutcome(c, opOk, f) == IF opOk THEN RecordSuccess(c, f) ELSE RecordFailure(c, f)

\* the end of fetch_template and, when it returned a template, render_template;
\* `template` is the content the service answered with and `order` the
\* iteration order of the variables map
FetchRecord(t, f, template, order) ==
    /\ tasks[t].pc = "t_record"
    /\ LET r == RecordOutcome(cb["template_service"], tasks[t].opOk, f)
           rendered == RenderTemplate(template, order)
       IN /\ cb' = [cb EXCEPT !["template_service"] = r.cb]
          /\ IF ~(tasks[t].opOk /\ r.ok)
             THEN /\ tasks' = CallFailed(t, FALSE)
                  /\ UNCHANGED <<permits, tmplLock, fcmLock>>
             ELSE IF rendered.kind = "Ok"
             THEN /\ tasks' = [tasks EXCEPT ![t].pc = "s_enter", ![t].fetchOk = TRUE,
                                            ![t].rendered = TRUE]
                  /\ UNCHANGED <<permits, tmplLock, fcmLock>>
             ELSE IF rendered.kind = "Err"
             THEN /\ tasks' = [tasks EXCEPT ![t].pc = "mark_failed", ![t].fetchOk = TRUE,
                                            ![t].reason = "TemplateRender"]
                  /\ UNCHANGED <<permits, tmplLock, fcmLock>>
             ELSE \* unwrap() on None: the task unwinds, answering nothing
                  /\ tasks' = [tasks EXCEPT ![t] = Dropped(t, "panicked")]
                  /\ Release(t)
    /\ UNCHANGED <<idem, delivered, running, accepted, audit, dlq, sentSeen>>
    /\ UNCHANGED <<bvars, retry, store, trip, wrap, rend>>

\* the end of send_notification
SendRecord(t, f) ==
    /\ tasks[t].pc = "s_record"
    /\ LET r == RecordOutcome(cb["fcm"], tasks[t].opOk, f)
       IN /\ cb' = [cb EXCEPT !["fcm"] = r.cb]
          /\ tasks' = IF tasks[t].opOk /\ r.ok
                      THEN [tasks EXCEPT ![t].pc = "mark_sent"]
                      ELSE CallFailed(t, FALSE)
    /\ UNCHANGED <<idem, delivered, permits, tmplLock, fcmLock, running, accepted, audit,
                   dlq, sentSeen>>
    /\ UNCHANGED <<bvars, retry, store, trip, wrap, rend>>

\* mark_as_sent(key)?: the SET retried until it succeeds or attempts run out
MarkSent(t, ok) ==
    /\ tasks[t].pc = "mark_sent"
    /\ LET k == KeyOf(t)
       IN IF ~ok
          THEN /\ tasks' = Return(t, "MarkSentFailed", idem[k])
               /\ UNCHANGED idem
          ELSE /\ idem' = [idem EXCEPT ![k] = "sent"]
               /\ tasks' = [tasks EXCEPT ![t].pc = "audit_sent", ![t].wrote = TRUE]
    /\ UNCHANGED <<cb, delivered, permits, tmplLock, fcmLock, running, accepted, audit,
                   dlq, sentSeen>>
    /\ UNCHANGED <<bvars, retry, store, trip, wrap, rend>>

\* log_notification(Sent) with its error swallowed, then return Ok
AuditSent(t, ok) ==
    /\ tasks[t].pc = "audit_sent"
    /\ LET k == KeyOf(t)
       IN /\ audit' = IF ok THEN [audit EXCEPT ![<<k, "sent">>] = @ + 1] ELSE audit
          /\ tasks' = [Return(t, AfterAudit("Ok", ok), idem[k])
                          EXCEPT ![t].audited = ok, ![t].audits = Append(@, "sent")]
    /\ UNCHANGED <<idem, cb, delivered, permits, tmplLock, fcmLock, running, accepted,
                   dlq, sentSeen>>
    /\ UNCHANGED <<bvars, retry, store, trip, wrap, rend>>

(***************************************************************************)
(* The task's answer to the broker (main.rs).                              *)
(***************************************************************************)
\* the DlqMessage built for task t (failed_at left out)
DlqMessageOf(t) ==
    [original_message |-> ParseNotification(tasks[t].payload).msg,
     failure_reason |-> tasks[t].res]

\* the broker command a task answers its delivery with after process_message
ResponseFor(res) == IF res = "Ok" THEN "ack" ELSE "reject"

\* Ok: acknowledge(tag).  Err: publish_to_dlq if the payload parses as a
\* NotificationMessage (pub: the publish succeeded), then reject(tag, false)
Respond(t, pub) ==
    /\ tasks[t].pc = "respond"
    /\ LET publish == /\ tasks[t].res # "Ok"
                      /\ ParseNotification(tasks[t].payload).ok
       IN /\ dlq' = IF publish /\ pub THEN dlq \cup {DlqMessageOf(t)} ELSE dlq
          /\ tasks' = [Answer(t, ResponseFor(tasks[t].res)) EXCEPT ![t].published = publish]
    /\ UNCHANGED <<idem, cb, delivered, permits, tmplLock, fcmLock, running, accepted,
                   audit, sentSeen>>
    /\ UNCHANGED <<bvars, retry, store, trip, wrap, rend>>

\* the spawned future ends: its guards and its permit are dropped
End(t) ==
    /\ tasks[t].pc = "answered"
    /\ Release(t)
    /\ tasks' = [tasks EXCEPT ![t] = Gone]
    /\ UNCHANGED <<idem, cb, delivered, running, accepted, audit, dlq, sentSeen>>
    /\ UNCHANGED <<bvars, retry, store, trip, wrap, rend>>

\* the steps of the tasks and the end of a stream
Steps ==
    \/ \E w \in Workers : StreamEnd(w)
    \/ \E t \in Tags : Acquire(t)
    \/ \E t \in Tags, ok \in BOOLEAN : Connect(t, ok)
    \/ \E t \in Tags : LockTemplate(t)
    \/ \E t \in Tags : LockFcm(t)
    \/ \E t \in Tags, ok \in BOOLEAN : Check(t, ok)
    \/ \E t \in Tags, ok \in BOOLEAN : MarkProcessing(t, ok)
    \/ \E t \in Tags, ok \in BOOLEAN : MarkFailed(t, ok)
    \/ \E t \in Tags, ok \in BOOLEAN : AuditFailed(t, ok)
    \/ \E t \in Tags, f \in FailAt, elapsed \in BOOLEAN : CallEnter(t, f, elapsed)
    \/ \E t \in Tags, ok \in BOOLEAN : FetchOp(t, ok)
    \/ \E t \in Tags, f \in FailAt, template \in Templates :
          \E order \in Orders(VariablesOf(t)) : FetchRecord(t, f, template, order)
    \/ \E t \in Tags, ok \in BOOLEAN : SendOp(t, ok)
    \/ \E t \in Tags, f \in FailAt : SendRecord(t, f)
    \/ \E t \in Tags, ok \in BOOLEAN : MarkSent(t, ok)
    \/ \E t \in Tags, ok \in BOOLEAN : AuditSent(t, ok)
    \/ \E t \in Tags, pub \in BOOLEAN : Respond(t, pub)
    \/ \E t \in Tags : End(t)

\* workers taking deliveries concurrently
Next ==
    \/ \E w \in Workers, p \in Payloads : Deliver(w, p)
    \/ Steps

Spec == Init /\ [][Next]_vars

\* fully serialized redeliveries: a delivery is taken only when the task of
\* every earlier one has ended
NextSerial ==
    \/ \E w \in Workers, p \in Redeliveries : DeliverSerial(w, p)
    \/ Steps

SpecSerial == Init /\ [][NextSerial]_vars

\* the payloads of a worker under load: one that process_message rejects at
\* once and a well-formed one
PoolPayloads == {p \in Payloads : ~p.json} \cup Redeliveries

\* a delivery to the one worker under load, whose channel has a prefetch
\* count above its worker_concurrency
DeliverPool(p) == DeliverWith(1, p, MaxPoolDeliveries, PoolPrefetchCount)

\* one worker whose broker hands it more deliveries than it has permits
NextPool ==
    \/ \E p \in PoolPayloads : DeliverPool(p)
    \/ Steps

SpecPool == Init /\ [][NextPool]_vars

\* the steps of the spawned tasks: every step but the end of a stream
TaskSteps == Steps /\ UNCHANGED running

\* the worker under load on a runtime that keeps polling its ready tasks and
\* whose external calls all return: some task step is taken as long as one
\* is possible
SpecPoolFair == SpecPool /\ WF_vars(TaskSteps)

(***************************************************************************)
(* The circuit breaker of one dependency seen command by command           *)
(* (clients/circuit_breaker.rs): every cache command of a call is a step   *)
(* of its own, the worker instances share the keys and a clock, and the    *)
(* failures key expires.  `ok` is whether the command succeeded.           *)
(***************************************************************************)
\* the breaker is open and fewer than timeout_seconds have passed since opened_at
WindowAt(ci, t) ==
    FromString(ci.state) = "Open" /\ ci.opened # -1 /\ t - ci.opened < TimeoutSeconds

Window == WindowAt(circuit, now)

\* a call of some instance is between its first cache command and its return
InFlight(c) == calls[c].pc \notin {"idle", "done"}

\* win follows every step of the breaker: it holds for a call from its start
\* for as long as the breaker is open inside its timeout
Follow ==
    /\ win' = [c \in Callers |->
                 /\ calls'[c].pc # "idle"
                 /\ WindowAt(circuit', now')
                 /\ IF calls[c].pc = "idle" THEN Window ELSE win[c]]
    /\ UNCHANGED <<pvars, retry, store, trip, wrap, rend>>

\* call returns `result`
Finish(c, result) == [calls EXCEPT ![c].pc = "done", ![c].result = result]

\* the result of the operation, as try_operation hands it back
OpResult(c) == IF calls[c].opOk THEN "op_ok" ELSE "op_err"

\* a cache command fails and `?` returns its error from call
CacheFailed(c) ==
    /\ hist.errs < MaxCacheErrors
    /\ calls' = [calls EXCEPT ![c].pc = "done", ![c].result = "cache", ![c].err = TRUE]
    /\ hist' = [hist EXCEPT !.errs = @ + 1]
    /\ UNCHANGED <<now, circuit>>

\* a client enters circuit_breaker.call
CallStart(c) ==
    /\ calls[c].pc = "idle"
    /\ hist.started < MaxCalls
    /\ calls' = [calls EXCEPT ![c] =
                   [NoCall EXCEPT !.pc = "get_state",
                                  !.ref = IF /\ hist.reopened # -1
                                             /\ now - hist.reopened < TimeoutSeconds
                                          THEN hist.reopened ELSE -1]]
    /\ hist' = [hist EXCEPT !.started = @ + 1,
                            !.overlap = @ \/ \E d \in Callers \ {c} : InFlight(d)]
    /\ UNCHANGED <<now, circuit>>
    /\ Follow

\* call: get_state()? and the match on the state
CallGetState(c, ok) ==
    /\ calls[c].pc = "get_state"
    /\ IF ~ok THEN CacheFailed(c)
       ELSE /\ calls' = [calls EXCEPT ![c].pc = IF FromString(circuit.state) = "Open"
                                                THEN "should_attempt_reset"
                                                ELSE "operation"]
            /\ UNCHANGED <<now, circuit, hist>>
    /\ Follow

\* should_attempt_reset: elapsed >= timeout_seconds
ResetDueStrict(elapsed) == elapsed > TimeoutSeconds
ResetDue(elapsed) == elapsed >= TimeoutSeconds

\* call, Open arm: should_attempt_reset()?
ShouldAttemptReset(c, ok) ==
    /\ calls[c].pc = "should_attempt_reset"
    /\ IF ~ok THEN CacheFailed(c)
       ELSE /\ calls' = IF circuit.opened # -1 /\ ResetDue(now - circuit.opened)
                        THEN [calls EXCEPT ![c].pc = "set_half_open"]
                        ELSE Finish(c, "open")
            /\ UNCHANGED <<now, circuit, hist>>
    /\ Follow

\* call, Open arm: set_state(HalfOpen)? before try_operation
SetHalfOpen(c, ok) ==
    /\ calls[c].pc = "set_half_open"
    /\ IF ~ok THEN CacheFailed(c)
       ELSE /\ circuit' = [circuit EXCEPT !.state = "half_open"]
            /\ calls' = [calls EXCEPT ![c].pc = "operation", ![c].reset = TRUE]
            /\ hist' = [hist EXCEPT !.episode = IF circuit.state = "half_open" THEN @ ELSE 0]
            /\ UNCHANGED now
    /\ Follow

\* try_operation: operation().await
TryOperation(c, opOk) ==
    /\ calls[c].pc = "operation"
    /\ calls' = [calls EXCEPT ![c].pc = "record_get_state", ![c].opOk = opOk,
                              ![c].invoked = @ + 1]
    /\ hist' = [hist EXCEPT !.consec = IF opOk THEN 0 ELSE @ + 1,
                            !.lapsed = IF opOk THEN FALSE ELSE @,
                            !.episode = IF opOk THEN @ + 1 ELSE 0]
    /\ UNCHANGED <<now, circuit>>
    /\ Follow

\* record_success / record_failure: get_state()? and the branch on the state
RecordGetState(c, ok) ==
    /\ calls[c].pc = "record_get_state"
    /\ IF ~ok THEN CacheFailed(c)
       ELSE /\ LET st == FromString(circuit.state)
               IN calls' =
                    IF calls[c].opOk
                    THEN IF st = "HalfOpen"
                         THEN [calls EXCEPT ![c].pc = "increment_success_count"]
                         ELSE IF st = "Closed"
                         THEN [calls EXCEPT ![c].pc = "reset_failure_count"]
                         ELSE Finish(c, OpResult(c))
                    ELSE IF st = "HalfOpen"
                         THEN [calls EXCEPT ![c].pc = "set_open", ![c].trial = TRUE]
                         ELSE [calls EXCEPT ![c].pc = "increment_failure_count"]
            /\ UNCHANGED <<now, circuit, hist>>
    /\ Follow

\* record_success, HalfOpen: increment_success_count()? and the threshold test
IncrementSuccessCount(c, ok) ==
    /\ calls[c].pc = "increment_success_count"
    /\ IF ~ok THEN CacheFailed(c)
       ELSE /\ circuit' = [circuit EXCEPT !.successes = @ + 1]
            /\ calls' = IF circuit.successes + 1 >= SuccessThreshold
                        THEN [calls EXCEPT ![c].pc = "set_closed"]
                        ELSE Finish(c, OpResult(c))
            /\ UNCHANGED <<now, hist>>
    /\ Follow

\* record_success, HalfOpen: set_state(Closed)?
SetClosed(c, ok) ==
    /\ calls[c].pc = "set_closed"
    /\ IF ~ok THEN CacheFailed(c)
       ELSE /\ circuit' = [circuit EXCEPT !.state = "closed"]
            /\ calls' = [calls EXCEPT ![c].pc = "del_failures"]
            /\ UNCHANGED <<now, hist>>
    /\ Follow

\* reset_counters: del failures
DelFailures(c, ok) ==
    /\ calls[c].pc = "del_failures"
    /\ IF ~ok THEN CacheFailed(c)
       ELSE /\ circuit' = [circuit EXCEPT !.failures = 0, !.failExp = -1]
            /\ calls' = [calls EXCEPT ![c].pc = "del_successes"]
            /\ UNCHANGED <<now, hist>>
    /\ Follow

\* reset_counters: del successes
DelSuccesses(c, ok) ==
    /\ calls[c].pc = "del_successes"
    /\ IF ~ok THEN CacheFailed(c)
       ELSE /\ circuit' = [circuit EXCEPT !.successes = 0]
            /\ calls' = [calls EXCEPT ![c].pc = "del_opened_at"]
            /\ UNCHANGED <<now, hist>>
    /\ Follow

\* reset_counters: del opened_at, the last command of record_success
DelOpenedAt(c, ok) ==
    /\ calls[c].pc = "del_opened_at"
    /\ IF ~ok THEN CacheFailed(c)
       ELSE /\ circuit' = [circuit EXCEPT !.opened = -1]
            /\ calls' = Finish(c, OpResult(c))
            /\ UNCHANGED <<now, hist>>
    /\ Follow

\* record_success, Closed: reset_failure_count()?
ResetFailureCount(c, ok) ==
    /\ calls[c].pc = "reset_failure_count"
    /\ IF ~ok THEN CacheFailed(c)
       ELSE /\ circuit' = [circuit EXCEPT !.failures = 0, !.failExp = -1]
            /\ calls' = Finish(c, OpResult(c))
            /\ UNCHANGED <<now, hist>>
    /\ Follow

\* the failures key has a TTL that has run out
FailuresExpired == circuit.failExp # -1 /\ now >= circuit.failExp

\* increment_failure_count: INCR (an expired key restarts from nothing, without TTL)
IncrementFailureCount(c, ok) ==
    /\ calls[c].pc = "increment_failure_count"
    /\ IF ~ok THEN CacheFailed(c)
       ELSE LET count == (IF FailuresExpired THEN 0 ELSE circuit.failures) + 1
            IN /\ circuit' = [circuit EXCEPT !.failures = count,
                                             !.failExp = IF FailuresExpired THEN -1 ELSE @]
               /\ calls' = [calls EXCEPT ![c].pc = "expire_failures", ![c].count = count]
               /\ hist' = [hist EXCEPT !.lapsed = @ \/ (FailuresExpired /\ circuit.failures > 0)]
               /\ UNCHANGED now
    /\ Follow

\* record_failure: failures >= failure_threshold
TrippedLate(failures) == failures > FailureThreshold
Tripped(failures) == failures >= FailureThreshold

\* increment_failure_count: EXPIRE timeout_seconds, then the threshold test of
\* record_failure on the count INCR returned
ExpireFailures(c, ok) ==
    /\ calls[c].pc = "expire_failures"
    /\ IF ~ok THEN CacheFailed(c)
       ELSE /\ circuit' = [circuit EXCEPT !.failExp = now + TimeoutSeconds]
            /\ calls' = IF Tripped(calls[c].count)
                        THEN [calls EXCEPT ![c].pc = "set_open"]
                        ELSE Finish(c, OpResult(c))
            /\ UNCHANGED <<now, hist>>
    /\ Follow

\* record_failure: set_state(Open)?
SetOpen(c, ok) ==
    /\ calls[c].pc = "set_open"
    /\ IF ~ok THEN CacheFailed(c)
       ELSE /\ circuit' = [circuit EXCEPT !.state = "open"]
            /\ calls' = [calls EXCEPT ![c].pc = "set_opened_at"]
            /\ UNCHANGED <<now, hist>>
    /\ Follow

\* record_failure: set_opened_at()?, its last command
SetOpenedAt(c, ok) ==
    /\ calls[c].pc = "set_opened_at"
    /\ IF ~ok THEN CacheFailed(c)
       ELSE /\ circuit' = [circuit EXCEPT !.opened = now]
            /\ calls' = Finish(c, OpResult(c))
            /\ hist' = [hist EXCEPT !.reopened = IF calls[c].trial THEN now ELSE @]
            /\ UNCHANGED now
    /\ Follow

\* the client has taken the result of call
CallReturn(c) ==
    /\ calls[c].pc = "done"
    /\ calls' = [calls EXCEPT ![c] = NoCall]
    /\ UNCHANGED <<now, circuit, hist>>
    /\ Follow

\* a second passes
Tick ==
    /\ now < MaxTime
    /\ now' = now + 1
    /\ UNCHANGED <<circuit, calls, hist>>
    /\ Follow

\* the commands of the calls and the clock
BreakerSteps ==
    \/ Tick
    \/ \E c \in Callers : CallStart(c)
    \/ \E c \in Callers, ok \in BOOLEAN : CallGetState(c, ok)
    \/ \E c \in Callers, ok \in BOOLEAN : ShouldAttemptReset(c, ok)
    \/ \E c \in Callers, ok \in BOOLEAN : SetHalfOpen(c, ok)
    \/ \E c \in Callers, opOk \in BOOLEAN : TryOperation(c, opOk)
    \/ \E c \in Callers, ok \in BOOLEAN : RecordGetState(c, ok)
    \/ \E c \in Callers, ok \in BOOLEAN : IncrementSuccessCount(c, ok)
    \/ \E c \in Callers, ok \in BOOLEAN : SetClosed(c, ok)
    \/ \E c \in Callers, ok \in BOOLEAN : DelFailures(c, ok)
    \/ \E c \in Callers, ok \in BOOLEAN : DelSuccesses(c, ok)
    \/ \E c \in Callers, ok \in BOOLEAN : DelOpenedAt(c, ok)
    \/ \E c \in Callers, ok \in BOOLEAN : ResetFailureCount(c, ok)
    \/ \E c \in Callers, ok \in BOOLEAN : IncrementFailureCount(c, ok)
    \/ \E c \in Callers, ok \in BOOLEAN : ExpireFailures(c, ok)
    \/ \E c \in Callers, ok \in BOOLEAN : SetOpen(c, ok)
    \/ \E c \in Callers, ok \in BOOLEAN : SetOpenedAt(c, ok)
    \/ \E c \in Callers : CallReturn(c)

SpecBreaker == Init /\ [][BreakerSteps]_vars

(***************************************************************************)
(* retry_with_backoff (utils.rs).                                          *)
(***************************************************************************)
\* std::cmp::min
Min(a, b) == IF a <= b THEN a ELSE b

\* let mut attempt = 0; let mut delay_ms = config.initial_delay_ms
RetryStarted(config) ==
    [NoRetry EXCEPT !.pc = "attempt", !.config = config,
                    !.delay_ms = config.initial_delay_ms]

\* retry_with_backoff is called
RetryStart(config) ==
    /\ retry.pc = "idle"
    /\ retry' = RetryStarted(config)
    /\ UNCHANGED <<pvars, bvars, store, trip, wrap, rend>>

\* the attempt limit is reached: attempt >= config.max_attempts
Exhausted(attempt, max_attempts) == attempt >= max_attempts

\* the loop goes on after every attempt, successful or not, until the limit
StopsWhenExhausted(ok, attempt, max_attempts) == Exhausted(attempt, max_attempts)

\* the loop is left after this attempt: Ok(value) => return Ok(value), or the
\* attempt limit is reached
Stops(ok, attempt, max_attempts) == ok \/ Exhausted(attempt, max_attempts)

\* attempt += 1; operation().await and the match on its result, up to the
\* return or the sleep; outcomes keeps the result of every invocation and
\* value the invocation whose Ok value is returned
RetryAttempt(ok) ==
    /\ retry.pc = "attempt"
    /\ LET attempt == retry.attempt + 1
           stops == Stops(ok, attempt, retry.config.max_attempts)
       IN retry' = [retry EXCEPT
             !.attempt = attempt,
             !.invoked = @ + 1,
             !.outcomes = Append(@, ok),
             !.pc = IF stops THEN "returned" ELSE "sleep",
             !.value = IF stops /\ ok THEN attempt ELSE @,
             !.result = IF ~stops THEN @ ELSE IF ok THEN "ok" ELSE "err"]
    /\ UNCHANGED <<pvars, bvars, store, trip, wrap, rend>>

\* (delay_ms as f64 * (1.0 + jitter)) as u64, jitter in tenths
Jittered(delay_ms, tenths) == (delay_ms * (10 + tenths)) \div 10

\* sleep(jittered_delay), then delay_ms = min(delay_ms * backoff_multiplier,
\* max_delay_ms); a product that does not fit the u64 panics where overflow
\* checks are on (wrapped = FALSE) and wraps where they are off
RetrySleep(tenths, wrapped) ==
    /\ retry.pc = "sleep"
    /\ LET product == retry.delay_ms * retry.config.backoff_multiplier
           slept == Append(retry.slept, Jittered(retry.delay_ms, tenths))
       IN IF product >= DelayLimit /\ ~wrapped
          THEN retry' = [retry EXCEPT !.pc = "panicked", !.slept = slept]
          ELSE retry' = [retry EXCEPT
                            !.pc = "attempt", !.slept = slept,
                            !.delay_ms = Min(product % DelayLimit,
                                             retry.config.max_delay_ms)]
    /\ UNCHANGED <<pvars, bvars, store, trip, wrap, rend>>

\* one run of retry_with_backoff on an operation whose attempts succeed or fail
NextRetry ==
    \/ \E config \in RetryConfigs : RetryStart(config)
    \/ \E ok \in BOOLEAN : RetryAttempt(ok)
    \/ \E tenths \in {-1, 0, 1}, wrapped \in BOOLEAN : RetrySleep(tenths, wrapped)

SpecRetry == Init /\ [][NextRetry]_vars

(***************************************************************************)
(* The idempotency store of one key (clients/redis.rs) with the cache's    *)
(* expiry.  `ok` is whether the cache command succeeded.                   *)
(***************************************************************************)
\* SET without EX: the entry never expires
ExpiresNever(at, ttl) == -1

\* SET key value EX ttl at second `at`: the second at which the entry is gone
ExpiresAt(at, ttl) == at + ttl

\* GET key: the stored string, none once the entry has expired
Cached(st) ==
    IF st.value # "absent" /\ (st.expires = -1 \/ st.time < st.expires)
    THEN st.value ELSE "absent"

\* set_ex(key, value, idempotency_ttl_seconds) by mark_as_<status>
SetEx(value, status, ok) ==
    /\ store' = IF ok
                THEN [store EXCEPT
                        !.value = value,
                        !.expires = ExpiresAt(store.time, IdempotencyTtl),
                        !.written = status, !.writtenAt = store.time,
                        !.foreign = FALSE, !.lapsed = FALSE,
                        !.checked = "none", !.prev = "none", !.result = "Ok"]
                ELSE [store EXCEPT !.result = "Err"]
    /\ UNCHANGED <<pvars, bvars, retry, trip, wrap, rend>>

MarkAsProcessing(ok) == SetEx("processing", "Processing", ok)

\* the write of the attempt of retry_with_backoff that succeeds, if any does
MarkAsSent(ok) == SetEx("sent", "Sent", ok)

MarkAsFailed(ok) == SetEx("failed", "Failed", ok)

\* another program sets the key to a string that is no status of this service
ForeignSet ==
    /\ store' = [store EXCEPT
                    !.value = "other", !.expires = -1,
                    !.foreign = TRUE, !.lapsed = FALSE,
                    !.checked = "none", !.prev = "none"]
    /\ UNCHANGED <<pvars, bvars, retry, trip, wrap, rend>>

\* RedisClient::check_idempotency
StoreCheck(ok) ==
    /\ store.checks < MaxChecks
    /\ store' = IF ok
                THEN [store EXCEPT
                        !.checked = CheckIdempotency(Cached(store)),
                        !.prev = store.checked,
                        !.checkedAt = store.time,
                        !.checks = @ + 1, !.result = "Ok"]
                ELSE [store EXCEPT !.checks = @ + 1, !.result = "Err"]
    /\ UNCHANGED <<pvars, bvars, retry, trip, wrap, rend>>

\* a second passes in the cache; an entry whose TTL has run out is gone
StoreTick ==
    /\ store.time < MaxStoreTime
    /\ LET lapses == Cached(store) # "absent" /\ store.expires = store.time + 1
       IN store' = [store EXCEPT
                       !.time = @ + 1,
                       !.lapsed = @ \/ lapses,
                       !.checked = IF lapses THEN "none" ELSE @,
                       !.prev = IF lapses THEN "none" ELSE @]
    /\ UNCHANGED <<pvars, bvars, retry, trip, wrap, rend>>

\* the calls of the workers on the entry of one key, and the clock
NextStore ==
    \/ \E ok \in BOOLEAN : MarkAsProcessing(ok)
    \/ \E ok \in BOOLEAN : MarkAsSent(ok)
    \/ \E ok \in BOOLEAN : MarkAsFailed(ok)
    \/ ForeignSet
    \/ \E ok \in BOOLEAN : StoreCheck(ok)
    \/ StoreTick

SpecStore == Init /\ [][NextStore]_vars

(***************************************************************************)
(* The dead-letter queue's wire format (models/message.rs, clients/rbmq.rs): *)
(* serde_json on DlqMessage.  A text is a sequence of characters; a JSON   *)
(* object is the sequence of its members [name, text], name and text as    *)
(* they are written, a nested object being a member sequence itself.       *)
(***************************************************************************)
Quote == "\""
Backslash == "\\"
Newline == "\n"

\* a string's character written raw between the quotes
EscapeCharRaw(c) == <<c>>

\* serde_json's string escaping of one character
EscapeChar(c) ==
    CASE c = Quote     -> <<Backslash, Quote>>
      [] c = Backslash -> <<Backslash, Backslash>>
      [] c = Newline   -> <<Backslash, "n">>
      [] OTHER         -> <<c>>

RECURSIVE Escape(_)
Escape(s) == IF s = <<>> THEN <<>> ELSE EscapeChar(Head(s)) \o Escape(Tail(s))

\* a Rust String as a JSON string
WriteString(s) == <<Quote>> \o Escape(s) \o <<Quote>>

\* the characters of an escaped text; "bad" marks an escape that is none
RECURSIVE Unescape(_)
Unescape(e) ==
    IF e = <<>> THEN <<>>
    ELSE IF Head(e) # Backslash THEN <<Head(e)>> \o Unescape(Tail(e))
    ELSE IF Len(e) < 2 THEN <<"bad">>
    ELSE LET c == CASE e[2] = Quote     -> Quote
                    [] e[2] = Backslash -> Backslash
                    [] e[2] = "n"       -> Newline
                    [] OTHER            -> "bad"
         IN <<c>> \o Unescape(From(e, 3))

\* the end of a JSON string that starts at the first character of text: the
\* position of its closing quote, 0 if there is none
RECURSIVE ClosingQuote(_, _)
ClosingQuote(text, i) ==
    IF i > Len(text) THEN 0
    ELSE IF text[i] = Backslash THEN ClosingQuote(text, i + 2)
    ELSE IF text[i] = Quote THEN i
    ELSE ClosingQuote(text, i + 1)

\* a JSON string read back as a Rust String
ReadString(text) ==
    IF Len(text) >= 2 /\ Head(text) = Quote /\ ClosingQuote(text, 2) = Len(text)
    THEN LET s == Unescape(SubSeq(text, 2, Len(text) - 1))
         IN IF \E i \in 1..Len(s) : s[i] = "bad"
            THEN [ok |-> FALSE, value |-> <<>>]
            ELSE [ok |-> TRUE, value |-> s]
    ELSE [ok |-> FALSE, value |-> <<>>]

DigitChars == <<"0", "1", "2", "3", "4", "5", "6", "7", "8", "9">>

\* an i32 in decimal
RECURSIVE WriteInt(_)
WriteInt(n) ==
    IF n < 0 THEN <<"-">> \o WriteInt(0 - n)
    ELSE IF n < 10 THEN <<DigitChars[n + 1]>>
    ELSE WriteInt(n \div 10) \o <<DigitChars[(n % 10) + 1]>>

DigitOf(c) == CHOOSE d \in 0..9 : DigitChars[d + 1] = c

RECURSIVE ReadDigits(_, _)
ReadDigits(text, acc) ==
    IF text = <<>> THEN acc ELSE ReadDigits(Tail(text), 10 * acc + DigitOf(Head(text)))

\* a JSON number read back as an i32
ReadInt(text) ==
    LET digits == IF text # <<>> /\ Head(text) = "-" THEN Tail(text) ELSE text
    IN IF digits = <<>> \/ \E i \in 1..Len(digits) : \A d \in 1..10 : DigitChars[d] # digits[i]
       THEN [ok |-> FALSE, value |-> 0]
       ELSE [ok |-> TRUE,
             value |-> IF Head(text) = "-" THEN 0 - ReadDigits(digits, 0)
                       ELSE ReadDigits(digits, 0)]

\* a serde_json::Value (null, bool, number or string) as JSON
WriteValue(value) ==
    CASE value.type = "string" -> WriteString(value.s)
      [] value.type = "null"   -> <<"n", "u", "l", "l">>
      [] OTHER                 -> value.s

\* JSON read back as a serde_json::Value
ReadValue(text) ==
    IF text = <<"n", "u", "l", "l">> THEN [ok |-> TRUE, value |-> [type |-> "null", s |-> <<>>]]
    ELSE IF text \in {<<"t", "r", "u", "e">>, <<"f", "a", "l", "s", "e">>}
    THEN [ok |-> TRUE, value |-> [type |-> "bool", s |-> text]]
    ELSE IF text # <<>> /\ Head(text) = Quote
    THEN LET r == ReadString(text)
         IN [ok |-> r.ok, value |-> [type |-> "string", s |-> r.value]]
    ELSE [ok |-> ReadInt(text).ok, value |-> [type |-> "number", s |-> text]]

\* a HashMap<String, Value> as a JSON object, its pairs in iteration order
RECURSIVE WriteMap(_)
WriteMap(order) ==
    IF order = <<>> THEN <<>>
    ELSE <<[name |-> WriteString(Head(order).key), text |-> WriteValue(Head(order).value)]>>
         \o WriteMap(Tail(order))

\* a JSON object read back as a HashMap<String, Value>
ReadMap(members) ==
    IF \A i \in 1..Len(members) :
          ReadString(members[i].name).ok /\ ReadValue(members[i].text).ok
    THEN [ok |-> TRUE,
          value |-> {[key |-> ReadString(members[i].name).value,
                      value |-> ReadValue(members[i].text).value] : i \in 1..Len(members)}]
    ELSE [ok |-> FALSE, value |-> {}]

\* the members of a JSON object named `name` as written
Members(object, name) ==
    {i \in 1..Len(object) : object[i].name = WriteString(name)}

\* the member a struct field is read from; a struct needs each field once
Member(object, name) == object[CHOOSE i \in Members(object, name) : TRUE].text
Has(object, name) == Cardinality(Members(object, name)) = 1

\* #[derive(Serialize)] on NotificationMessage, by one field of each type:
\* a String, the i32 and a HashMap
WriteNotification(m, order) ==
    << [name |-> WriteString(<<"idempotency_key">>), text |-> WriteString(m.idempotency_key)],
       [name |-> WriteString(<<"variables">>), text |-> WriteMap(order)],
       [name |-> WriteString(<<"priority">>), text |-> WriteInt(m.priority)] >>

\* #[derive(Deserialize)] on NotificationMessage
ReadNotification(object) ==
    IF /\ Has(object, <<"idempotency_key">>) /\ Has(object, <<"variables">>)
       /\ Has(object, <<"priority">>)
       /\ ReadString(Member(object, <<"idempotency_key">>)).ok
       /\ ReadMap(Member(object, <<"variables">>)).ok
       /\ ReadInt(Member(object, <<"priority">>)).ok
    THEN [ok |-> TRUE,
          value |-> [idempotency_key |-> ReadString(Member(object, <<"idempotency_key">>)).value,
                     priority |-> ReadInt(Member(object, <<"priority">>)).value,
                     variables |-> ReadMap(Member(object, <<"variables">>)).value]]
    ELSE [ok |-> FALSE, value |-> NoMsg]

\* serde_json::to_vec(message) on a DlqMessage
ToVec(message, order) ==
    << [name |-> WriteString(<<"original_message">>),
        text |-> WriteNotification(message.original_message, order)],
       [name |-> WriteString(<<"failure_reason">>), text |-> WriteString(message.failure_reason)],
       [name |-> WriteString(<<"failed_at">>), text |-> WriteString(message.failed_at)] >>

\* serde_json::from_slice::<DlqMessage>(bytes)
FromSlice(bytes) ==
    IF /\ Has(bytes, <<"original_message">>) /\ Has(bytes, <<"failure_reason">>)
       /\ Has(bytes, <<"failed_at">>)
       /\ ReadNotification(Member(bytes, <<"original_message">>)).ok
       /\ ReadString(Member(bytes, <<"failure_reason">>)).ok
       /\ ReadString(Member(bytes, <<"failed_at">>)).ok
    THEN [ok |-> TRUE,
          message |->
             [original_message |-> ReadNotification(Member(bytes, <<"original_message">>)).value,
              failure_reason |-> ReadString(Member(bytes, <<"failure_reason">>)).value,
              failed_at |-> ReadString(Member(bytes, <<"failed_at">>)).value]]
    ELSE [ok |-> FALSE, message |-> NoMsg]

\* the texts of at most MaxTextLen characters over a quote, a backslash, a
\* line feed and a letter
TextChars == {Quote, Backslash, Newline, "n"}
Texts == UNION {[1..n -> TextChars] : n \in 0..MaxTextLen}

\* the DlqMessages a task may publish
DlqVariables ==
    { {},
      {[key |-> <<"n">>, value |-> [type |-> "string", s |-> <<"A", Quote>>]]},
      {[key |-> <<"n">>, value |-> [type |-> "number", s |-> <<"4", "2">>]],
       [key |-> <<Backslash>>, value |-> [type |-> "null", s |-> <<>>]]},
      {[key |-> <<"b">>, value |-> [type |-> "bool", s |-> <<"t", "r", "u", "e">>]]} }

DlqMessages ==
    [original_message : [idempotency_key : {<<"k", "1">>, <<Quote>>},
                         priority : {-1, 0, 12},
                         variables : DlqVariables],
     failure_reason : Texts,
     failed_at : {<<"1", "Z">>}]

\* publish_to_dlq(message); ok: basic_publish succeeded
PublishToDlq(message, order, ok) ==
    /\ trip.pc = "idle"
    /\ trip' = IF ok
               THEN [trip EXCEPT !.pc = "published", !.message = message,
                                 !.bytes = ToVec(message, order)]
               ELSE [trip EXCEPT !.pc = "unpublished", !.message = message]
    /\ UNCHANGED <<pvars, bvars, retry, store, wrap, rend>>

\* a consumer of the dead-letter queue deserializes the bytes it reads
ConsumeFromDlq ==
    /\ trip.pc = "published"
    /\ trip' = [trip EXCEPT !.pc = "consumed", !.decoded = FromSlice(trip.bytes)]
    /\ UNCHANGED <<pvars, bvars, retry, store, wrap, rend>>

NextDlq ==
    \/ \E message \in DlqMessages, ok \in BOOLEAN :
          \E order \in Orders(message.original_message.variables) :
             PublishToDlq(message, order, ok)
    \/ ConsumeFromDlq

SpecDlq == Init /\ [][NextDlq]_vars

(***************************************************************************)
(* A client's call through its breaker (clients/fcm.rs, clients/template.rs): *)
(* circuit_breaker.call around fetch_with_retry_static /                   *)
(* send_with_retry_static, i.e. around a run of retry_with_backoff.        *)
(***************************************************************************)
\* the operation is invoked whatever the breaker decided, short of an error
RunsUnlessError(out) == out # "error"

\* the arms of the match in call that reach try_operation
Runs(out) == out = "run"

\* fetch_template / send_notification up to operation(): the breaker admits
\* or rejects the call, and an admitted call starts the retry loop
WrappedCall(config, f, elapsed) ==
    /\ wrap.pc \in {"idle", "done"}
    /\ wrap.n < MaxWrappedCalls
    /\ LET r == Admit(wrap.cb, f, elapsed)
       IN /\ wrap' = [wrap EXCEPT
                         !.pc = IF Runs(r.out) THEN "op" ELSE "done",
                         !.cb = r.cb, !.before = wrap.cb, !.n = @ + 1,
                         !.out = r.out, !.recorded = <<>>, !.recOk = FALSE,
                         !.result = IF Runs(r.out) THEN "none" ELSE r.out]
          /\ retry' = IF Runs(r.out) THEN RetryStarted(config) ELSE NoRetry
    /\ UNCHANGED <<pvars, bvars, store, trip, rend>>

\* try_operation once the retry loop has returned: record_success()? or
\* record_failure()?, then the loop's result
WrappedRecord(f) ==
    /\ wrap.pc = "op"
    /\ retry.pc = "returned"
    /\ LET opOk == retry.result = "ok"
           r == RecordOutcome(wrap.cb, opOk, f)
       IN wrap' = [wrap EXCEPT
                      !.pc = "done", !.cb = r.cb,
                      !.recorded = Append(@, IF opOk THEN "success" ELSE "failure"),
                      !.recOk = r.ok,
                      !.result = IF r.ok THEN retry.result ELSE "error"]
    /\ UNCHANGED <<pvars, bvars, store, trip, retry, rend>>

\* the calls of one client, one after the other
NextWrapped ==
    \/ \E config \in RetryConfigs, f \in FailAt, elapsed \in BOOLEAN :
          WrappedCall(config, f, elapsed)
    \/ \E ok \in BOOLEAN : RetryAttempt(ok)
    \/ \E tenths \in {-1, 0, 1}, wrapped \in BOOLEAN : RetrySleep(tenths, wrapped)
    \/ \E f \in FailAt : WrappedRecord(f)

SpecWrapped == Init /\ [][NextWrapped]_vars

(***************************************************************************)
(* render_template as a function (clients/template.rs): two calls on equal *)
(* inputs, each iterating its variables map in an order of its own.        *)
(***************************************************************************)
\* titles and bodies the template service may answer with
RenderTexts ==
    { <<"h">>,
      Placeholder(<<"n">>),
      Placeholder(<<"m">>),
      Placeholder(<<"n">>) \o Placeholder(<<"m">>),
      Open2,
      Close2 \o Open2,
      Close2 \o Placeholder(<<"n">>),
      Open2 \o Placeholder(<<"n">>) \o <<"m">> \o Close2 }

\* variables maps of a notification: values of every JSON type, one of them
\* a string that holds placeholder syntax
RenderVariables ==
    { {},
      {[key |-> <<"n">>, value |-> [type |-> "string", s |-> <<"A">>]]},
      {[key |-> <<"n">>, value |-> [type |-> "number", s |-> <<"7">>]],
       [key |-> <<"m">>, value |-> [type |-> "null", s |-> <<>>]]},
      {[key |-> <<"n">>, value |-> [type |-> "string", s |-> Placeholder(<<"m">>)]],
       [key |-> <<"m">>, value |-> [type |-> "bool", s |-> <<"t", "r", "u", "e">>]]},
      {[key |-> <<"n">>, value |-> [type |-> "array", s |-> <<>>]]} }

\* render_template(template, variables), the map iterated in `order`
Render(template, variables, order) ==
    /\ rend.pc = "idle"
    /\ rend' = [rend EXCEPT !.pc = "once", !.template = template,
                            !.variables = variables,
                            !.first = RenderTemplate(template, order)]
    /\ UNCHANGED <<pvars, bvars, retry, store, trip, wrap>>

\* render_template on an equal template and an equal variables map
RenderAgain(order) ==
    /\ rend.pc = "once"
    /\ rend' = [rend EXCEPT !.pc = "twice",
                            !.second = RenderTemplate(rend.template, order)]
    /\ UNCHANGED <<pvars, bvars, retry, store, trip, wrap>>

NextRender ==
    \/ \E title \in RenderTexts, body \in RenderTexts, variables \in RenderVariables :
          \E order \in Orders(variables) :
             Render([title |-> title, body |-> body], variables, order)
    \/ \E order \in Orders(rend.variables) : RenderAgain(order)

SpecRender == Init /\ [][NextRender]_vars

(***************************************************************************)
(* Claims.                                                                 *)
(***************************************************************************)
\* the errors of process_message that the error table routes to the DLQ
DlqErrors ==
    {"MissingToken", "InvalidToken", "TemplateFetch", "TemplateRender", "PushFailed",
     "CircuitOpen"}

\* process_message has returned for task t
Returned(t) == tasks[t].pc \in {"respond", "answered"}

\* no invocation of process_message for key k is under way
Quiet(k) == \A t \in Tags : tasks[t].pc \in InProcess => KeyOf(t) # k

\* C1 (idempotency monotonicity): an invocation of process_message that
\* started after some check_idempotency of its key returned Sent does not
\* invoke the push gateway.
IdempotencyMonotonicity ==
    \A t \in Tags : tasks[t].afterSent => ~tasks[t].gwInvoked

\* C2 (at-most-once delivery): over fully serialized invocations for a key,
\* the push gateway accepts at most one send for it.
AtMostOnceDelivery ==
    \A k \in Keys : accepted[k] <= 1

\* C3 (IdempotencyRecord invariant): an entry whose value is `sent` is never
\* overwritten with another value.
SentNeverOverwritten ==
    [][\A k \in Keys : idem[k] = "sent" => idem'[k] = "sent"]_vars

\* C4 (broker discipline): a task that has ended or answered has answered
\* its delivery, with ack when process_message returned Ok and with reject
\* without requeue otherwise.
BrokerDiscipline ==
    \A t \in Tags :
        /\ tasks[t].pc # "panicked"
        /\ tasks[t].pc = "answered" =>
              tasks[t].response = (IF tasks[t].res = "Ok" THEN "ack" ELSE "reject")

\* C5: when the gateway accepted the send of an invocation, process_message
\* returns Ok with the key's state `sent`, and the delivery is acked and not
\* dead-lettered.
AcceptedIsAcked ==
    \A t \in Tags :
        tasks[t].gwAccepted /\ Returned(t) =>
            /\ tasks[t].res = "Ok"
            /\ tasks[t].retState = "sent"
            /\ tasks[t].pc = "answered" =>
                  tasks[t].response = "ack" /\ ~tasks[t].published

\* C6 (dead-letter routing): when process_message returned one of the errors
\* routed to the DLQ, the task publishes a DlqMessage whose original_message is
\* the notification it processed and rejects the delivery without requeue.
DeadLetterRouting ==
    \A t \in Tags :
        tasks[t].pc = "answered" /\ tasks[t].res \in DlqErrors =>
            /\ tasks[t].published
            /\ ParseNotification(tasks[t].payload).msg = MsgOf(t)
            /\ tasks[t].response = "reject"

\* C7: when process_message returns one of the errors routed to the DLQ, the
\* key's state is `failed`.
FailedStateOnError ==
    \A t \in Tags :
        tasks[t].pc = "respond" /\ tasks[t].res \in DlqErrors =>
            tasks[t].retState = "failed"

\* C8 (malformed payload): when process_message returned MalformedMessage, no
\* idempotency entry was read or written, nothing is published to the DLQ and
\* the delivery is rejected without requeue.
MalformedHandling ==
    \A t \in Tags :
        Returned(t) /\ tasks[t].res = "MalformedMessage" =>
            /\ tasks[t].chk = "none"
            /\ ~tasks[t].wrote
            /\ tasks[t].pc = "answered" =>
                  tasks[t].response = "reject" /\ ~tasks[t].published

\* C9 (duplicate skip): an invocation whose check returned Sent or Processing
\* returns Ok at once, having written no idempotency entry, fetched no
\* template, invoked no gateway and written no audit row, with the key's state
\* as the check read it; the delivery is acked and nothing is dead-lettered.
DuplicateSkip ==
    \A t \in Tags :
        Alive(t) /\ tasks[t].chk \in {"Sent", "Processing"} =>
            /\ Returned(t)
            /\ tasks[t].res = "Ok"
            /\ tasks[t].retState = (IF tasks[t].chk = "Sent" THEN "sent" ELSE "processing")
            /\ ~tasks[t].wrote /\ ~tasks[t].fetched
            /\ ~tasks[t].gwInvoked /\ tasks[t].audits = <<>>
            /\ tasks[t].pc = "answered" =>
                  tasks[t].response = "ack" /\ ~tasks[t].published

\* a replayed delivery was skipped on Sent and acked
DuplicateSkipWitness ==
    \E t \in Tags :
        tasks[t].pc = "answered" /\ tasks[t].chk = "Sent" /\ tasks[t].response = "ack"

\* C10 as stated (single terminal audit on success): once no invocation for a
\* key is under way, a key the gateway accepted a send for has exactly one
\* audit row with status `sent`.
SingleSentAudit ==
    \A k \in Keys :
        accepted[k] >= 1 /\ Quiet(k) => audit[<<k, "sent">>] = 1

\* C10 as amended: a key never has more audit rows with status `sent` than
\* sends the gateway accepted for it.
SentAuditAtMostAccepted ==
    \A k \in Keys : audit[<<k, "sent">>] <= accepted[k]

\* the happy path: one accepted send and its one `sent` row
SentAuditWitness ==
    \E k \in Keys : accepted[k] = 1 /\ audit[<<k, "sent">>] = 1

\* the errors of steps 4 to 8 of process_message
StepErrors ==
    {"MissingToken", "InvalidToken", "TemplateFetch", "TemplateRender", "PushFailed"}

\* C11: when process_message has returned an error of steps 4 to 8, the
\* invocation has attempted exactly one audit write, with status `failed`.
AuditOnFailure ==
    \A t \in Tags :
        Returned(t) /\ tasks[t].res \in StepErrors => tasks[t].audits = <<"failed">>

\* C12 (audit failures are non-fatal): the step that ends an audit write
\* returns what process_message was about to return, with the key's state as
\* it was and no effect on the store, the breakers or the DLQ, whether the
\* write succeeded or not; and the broker action of a task is determined by
\* that return value and the payload alone.
AuditNonFatal ==
    /\ [][\A t \in Tags :
            tasks[t].pc \in {"audit_failed", "audit_sent"} /\ tasks'[t].pc = "respond" =>
                /\ tasks'[t].res =
                      (IF tasks[t].pc = "audit_sent" THEN "Ok" ELSE tasks[t].reason)
                /\ tasks'[t].retState = idem[KeyOf(t)]
                /\ idem' = idem /\ cb' = cb /\ dlq' = dlq /\ accepted' = accepted]_vars
    /\ [](\A t \in Tags :
            tasks[t].pc = "answered" /\ tasks[t].audits # <<>> =>
                /\ tasks[t].response = (IF tasks[t].res = "Ok" THEN "ack" ELSE "reject")
                /\ tasks[t].published =
                      (tasks[t].res # "Ok" /\ ParseNotification(tasks[t].payload).ok))

\* an invocation whose `sent` audit write failed was acked all the same
AuditNonFatalWitness ==
    \E t \in Tags :
        /\ tasks[t].pc = "answered" /\ tasks[t].audits = <<"sent">>
        /\ ~tasks[t].audited /\ tasks[t].response = "ack"

\* no call of the breaker is under way
Quiescent == \A c \in Callers : ~InFlight(c)

\* the calls made so far did not overlap and none of their cache commands failed
Clean == ~hist.overlap /\ hist.errs = 0

\* C13 (breaker call contract): a call that has returned either invoked the
\* operation exactly once and returned the operation's result, or returned
\* CircuitOpen without invoking it.
CallContract ==
    \A c \in Callers :
        calls[c].pc = "done" =>
            \/ calls[c].invoked = 1 /\ calls[c].result = OpResult(c)
            \/ calls[c].invoked = 0 /\ calls[c].result = "open"

OpenRejects ==
    /\ [](\A c \in Callers :
            win[c] => /\ calls[c].invoked = 0
                      /\ calls[c].pc = "done" /\ ~calls[c].err => calls[c].result = "open")
    /\ [][Window => FromString(circuit'.state) = "Open"]_vars

\* C16: a call that finds the breaker open with timeout_seconds or more
\* elapsed since opened_at sets the state to half_open, with that command
\* done before the operation is invoked, and invokes the operation once
\* (for a call whose cache commands succeed).
ResetAfterTimeout ==
    /\ [][\A c \in Callers :
            /\ ( /\ calls[c].pc = "should_attempt_reset" /\ calls'[c].pc # calls[c].pc
                 /\ ~calls'[c].err
                 /\ circuit.opened # -1 /\ now - circuit.opened >= TimeoutSeconds )
               => calls'[c].pc = "set_half_open" /\ calls'[c].invoked = 0
            /\ ( calls[c].pc = "set_half_open" /\ calls'[c].pc # calls[c].pc /\ ~calls'[c].err )
               => /\ circuit'.state = "half_open"
                  /\ calls'[c].pc = "operation" /\ calls'[c].invoked = 0
            /\ ( calls[c].pc = "operation" /\ calls'[c].pc # calls[c].pc )
               => calls'[c].invoked = 1]_vars
    /\ [](\A c \in Callers : calls[c].invoked <= 1 /\ (calls[c].reset => calls[c].result # "open"))

\* a call has reset the breaker after exactly timeout_seconds and made its trial call
ResetWitness ==
    \E c \in Callers :
        /\ calls[c].reset /\ calls[c].invoked = 1
        /\ circuit.state = "half_open" /\ now - circuit.opened = TimeoutSeconds

\* C17 (breaker recovery): over non-overlapping calls whose cache commands
\* succeed, a HalfOpen breaker goes to Closed only when success_threshold
\* consecutive successful calls have completed since it last entered HalfOpen.
RecoveryAfterThreshold ==
    [][Clean /\ FromString(circuit.state) = "HalfOpen" /\ circuit'.state = "closed" =>
          hist.episode >= SuccessThreshold]_vars

\* C18: a call that starts after a failed trial call has reopened the breaker
\* with a fresh opened_at, and less than timeout_seconds after it, does not
\* invoke the operation.
ReopenRejects ==
    \A c \in Callers :
        calls[c].ref # -1 /\ now - calls[c].ref < TimeoutSeconds => calls[c].invoked = 0

\* C19 (breaker fail-open): a call in which a cache command failed has
\* invoked the operation and returns the operation's result.
FailOpen ==
    \A c \in Callers :
        calls[c].pc = "done" /\ calls[c].err =>
            calls[c].invoked = 1 /\ calls[c].result = OpResult(c)

\* C20 (retry count): retry_with_backoff has invoked the operation at most
\* max_attempts times, and exactly max_attempts times when it has returned
\* the last error of an operation whose every attempt failed.
RetryCount ==
    /\ retry.invoked <= retry.config.max_attempts
    /\ retry.pc = "returned" /\ retry.result = "err" =>
          retry.invoked = retry.config.max_attempts

RECURSIVE Pow(_, _)
Pow(base, n) == IF n = 0 THEN 1 ELSE base * Pow(base, n - 1)

\* the delay the backoff schedule gives after the i-th failed attempt
ScheduledDelay(config, i) ==
    Min(config.initial_delay_ms * Pow(config.backoff_multiplier, i - 1),
        config.max_delay_ms)

\* C22 (backoff shape): the delay slept after the i-th failed attempt lies in
\* [0.9 d, 1.1 d] (in whole milliseconds) for
\* d = min(initial_delay_ms * backoff_multiplier^(i-1), max_delay_ms), so the
\* un-jittered delay never exceeds max_delay_ms.
BackoffShape ==
    \A i \in 1..Len(retry.slept) :
        LET d == ScheduledDelay(retry.config, i)
        IN /\ (9 * d) \div 10 <= retry.slept[i]
           /\ 10 * retry.slept[i] <= 11 * d

\* C23 (graceful shutdown): once the delivery stream of a worker has ended
\* the dispatcher takes no new delivery, and it does not exit before every
\* task it scheduled has issued its ack or reject: no task is cut off
\* unanswered by the dispatcher's exit.
GracefulShutdown ==
    /\ \A t \in Tags : tasks[t].pc # "cancelled"
    /\ \A w \in Workers, t \in Tags :
          ~running[w] /\ tasks[t].w = w /\ tasks[t].pc # "panicked" =>
             tasks[t].response # "none"

\* the tasks of worker w between the acquisition of their slot and their end
Holders(w) == {t \in Tags : tasks[t].w = w /\ Alive(t) /\ tasks[t].pc # "acquire"}

\* C24 (bounded concurrency): the tasks of one worker between slot
\* acquisition and completion never exceed worker_concurrency, and every
\* slot is free again once its task has ended, on every path: the free
\* permits are exactly worker_concurrency minus the tasks holding one.
BoundedConcurrency ==
    \A w \in Workers :
        /\ Cardinality(Holders(w)) <= WorkerConcurrency
        /\ permits[w] = WorkerConcurrency - Cardinality(Holders(w))

\* worker_concurrency tasks hold the slots of a worker and a further task of
\* that worker waits for one
BoundedConcurrencyWitness ==
    \E w \in Workers, t \in Tags :
        /\ tasks[t].w = w
        /\ tasks[t].pc = "acquire"
        /\ permits[w] = 0
        /\ Cardinality(Holders(w)) = WorkerConcurrency

\* the tasks of worker w that are scheduled and have not ended
Scheduled(w) == {t \in Tags : tasks[t].w = w /\ Alive(t)}

\* C28 (backpressure): the dispatcher acquires a slot before it schedules a
\* task, so the consume loop takes no further delivery while
\* worker_concurrency tasks are in flight: the scheduled-but-unfinished tasks
\* of a worker never exceed worker_concurrency.
Backpressure ==
    \A w \in Workers : Cardinality(Scheduled(w)) <= WorkerConcurrency

\* C25 (idempotency TTL): every mark_processing / mark_sent / mark_failed
\* write gives the entry a TTL of idempotency_ttl_seconds, and a check made
\* more than idempotency_ttl_seconds after a mark_sent that no write followed
\* returns NotFound.
IdempotencyTtlExpiry ==
    /\ store.written # "none" /\ ~store.foreign =>
          store.expires = store.writtenAt + IdempotencyTtl
    /\ /\ store.checked # "none"
       /\ store.written = "Sent" /\ ~store.foreign
       /\ store.checkedAt - store.writtenAt > IdempotencyTtl
       => store.checked = "NotFound"

\* a check more than the TTL after mark_sent has returned NotFound
IdempotencyTtlWitness ==
    /\ store.written = "Sent" /\ ~store.foreign
    /\ store.checkedAt - store.writtenAt > IdempotencyTtl
    /\ store.checked = "NotFound"

\* C26 (check is a pure read): with no intervening write or expiry, check
\* returns the status most recently written by mark_processing / mark_sent /
\* mark_failed, NotFound when there is none and for an unrecognized cached
\* value; check never modifies the entry, and repeated checks return the
\* same status.
CheckReadsLastWrite ==
    /\ [](store.checked # "none" =>
            /\ ~store.lapsed =>
                  store.checked = (IF store.written # "none" /\ ~store.foreign
                                   THEN store.written ELSE "NotFound")
            /\ store.prev # "none" => store.prev = store.checked)
    /\ [][store'.checks # store.checks =>
             /\ store'.value = store.value
             /\ store'.expires = store.expires]_vars

\* two checks in a row returned the status written by mark_failed
CheckReadsLastWriteWitness ==
    /\ store.prev = "Failed"
    /\ store.checked = "Failed"
    /\ store.written = "Failed" /\ ~store.foreign /\ ~store.lapsed

TokenValid(t) ==
    /\ ParseEnvelope(tasks[t].payload).ok
    /\ MsgOf(t).token # NoToken
    /\ MsgOf(t).token.len \in MinTokenLen..MaxTokenLen
    /\ MsgOf(t).token.charsOk

\* C29 (step ordering): within one invocation of process_message the
\* template service is called only after mark_processing took effect and the
\* push token was validated, and the push gateway is invoked only after that
\* and after the template fetch and the render succeeded; a failed step
\* prevents every later one (an invalid token causes no template fetch).
StepOrdering ==
    \A t \in Tags :
        /\ tasks[t].fetched => tasks[t].wrote /\ TokenValid(t)
        /\ tasks[t].gwInvoked =>
              /\ tasks[t].wrote /\ TokenValid(t)
              /\ tasks[t].fetched /\ tasks[t].fetchOk /\ tasks[t].rendered
        /\ tasks[t].reason \in {"InvalidToken", "MissingToken"} \/ tasks[t].res = "MissingToken" =>
              ~tasks[t].fetched /\ ~tasks[t].gwInvoked
        /\ tasks[t].reason \in {"TemplateFetch", "TemplateRender"} => ~tasks[t].gwInvoked

\* one invocation has returned InvalidToken without a template fetch while
\* another has invoked the push gateway after its fetch and render
StepOrderingWitness ==
    \E t1, t2 \in Tags :
        /\ tasks[t1].pc = "respond" /\ tasks[t1].res = "InvalidToken"
        /\ ~tasks[t1].fetched
        /\ tasks[t2].gwInvoked /\ tasks[t2].rendered /\ tasks[t2].wrote

\* C30 (the breaker wraps the retry loop): a fetch or send passes through
\* breaker.call once, so a finished call has recorded at most one outcome
\* whatever the number of attempts: a call that exhausted its attempts
\* recorded exactly one failure (one more on the counter of a closed
\* breaker), a call that succeeded after retries exactly one success, and a
\* call the breaker rejected made no attempt.
BreakerWrapsRetry ==
    wrap.pc = "done" =>
        /\ Len(wrap.recorded) <= 1
        /\ wrap.out = "run" /\ retry.result = "err" =>
              /\ wrap.recorded = <<"failure">>
              /\ FromString(wrap.before.state) = "Closed" /\ wrap.recOk =>
                    wrap.cb.failures = wrap.before.failures + 1
        /\ wrap.out = "run" /\ retry.result = "ok" => wrap.recorded = <<"success">>
        /\ wrap.out = "open" => retry.invoked = 0 /\ wrap.recorded = <<>>

\* a call through a closed breaker has failed three attempts and recorded
\* one failure
BreakerWrapsRetryWitness ==
    /\ wrap.pc = "done"
    /\ wrap.out = "run"
    /\ retry.result = "err" /\ retry.invoked = MaxAttempts
    /\ wrap.recorded = <<"failure">>
    /\ wrap.cb.failures = wrap.before.failures + 1

\* text holds a `{{...}}` sequence: a `{{` with a `}}` after it
HasPlaceholder(text) ==
    \E i, j \in 1..Len(text) :
        /\ i + 2 <= j
        /\ StartsWith(From(text, i), Open2)
        /\ StartsWith(From(text, j), Close2)

\* the first `{{...}}` sequence of text: from its first `{{` (the first one
\* that has a `}}` after it) to the end of the first `}}` after that
FirstPlaceholder(text) ==
    LET i == Find(text, Open2)
        j == CHOOSE j \in (i + 2)..Len(text) :
                /\ StartsWith(From(text, j), Close2)
                /\ \A k \in (i + 2)..(j - 1) : ~StartsWith(From(text, k), Close2)
    IN SubSeq(text, i, j + 1)

\* every value of the map has a string form
Stringifiable(variables) == \A v \in variables : Stringify(v.value).ok

\* what render owes for a title or body whose substituted text is `text`
Owed(text) ==
    IF HasPlaceholder(text) THEN [kind |-> "Err", text |-> FirstPlaceholder(text)]
    ELSE [kind |-> "Ok", text |-> text]

\* C31 (render exactness): for variables that all have a string form, render
\* succeeds exactly when, after the substitution of every `{{name}}` whose
\* name is a key, neither title nor body still holds a `{{...}}` sequence,
\* and otherwise fails naming the first unresolved placeholder.
RenderExactness ==
    rend.pc = "once" /\ Stringifiable(rend.variables) =>
        \E order \in Orders(rend.variables) :
            LET t == Owed(Substitute(rend.template.title, order).text)
                b == Owed(Substitute(rend.template.body, order).text)
            IN rend.first =
                  IF t.kind = "Err" THEN [kind |-> "Err", title |-> t.text, body |-> <<>>]
                  ELSE IF b.kind = "Err"
                  THEN [kind |-> "Err", title |-> b.text, body |-> <<>>]
                  ELSE [kind |-> "Ok", title |-> t.text, body |-> b.text]

\* C32 (rendering is pure): two calls of render with an equal template and
\* an equal variables map return equal results, whatever order each of them
\* iterates the map in.
RenderPure ==
    rend.pc = "twice" => rend.first = rend.second

\* C39 (rendering is total): render returns Ok or Err for every template and
\* variables map and never aborts the task.
RenderTotal ==
    rend.first.kind # "Panic" /\ rend.second.kind # "Panic"

\* C33 (a breaker cannot get stuck open): whenever no breaker call is in
\* progress and circuit:D:state is `open`, circuit:D:opened_at is present,
\* for every interleaving of the calls of the worker instances.
NeverStuckOpen ==
    Quiescent /\ FromString(circuit.state) = "Open" => circuit.opened # -1

\* C34 (no well-formed notification is lost): when a delivery whose payload
\* passed the parse of step 1 has been acked or rejected without requeue, the
\* push gateway has accepted a send for its key, or a DlqMessage carrying it
\* has been published, or another invocation for its key is in flight.
NoNotificationLost ==
    \A t \in Tags :
        /\ tasks[t].pc = "answered"
        /\ ParseEnvelope(tasks[t].payload).ok
        /\ tasks[t].response \in {"ack", "reject"}
        => \/ accepted[KeyOf(t)] > 0
           \/ tasks[t].published
           \/ \E u \in Tags \ {t} :
                 tasks[u].pc \in InProcess /\ KeyOf(u) = KeyOf(t)

\* C37 (check error is treated as not found): an invocation whose
\* check_idempotency returned an error goes on to mark_processing instead of
\* returning, and what it returns later is the outcome of a later step.
CheckErrorContinues ==
    /\ [](\A t \in Tags :
            tasks[t].chk = "Error" /\ Returned(t) =>
                tasks[t].wrote \/ tasks[t].res = "MarkProcessingFailed")
    /\ [][\A t \in Tags :
            tasks[t].pc = "check" /\ tasks'[t].chk = "Error" =>
                tasks'[t].pc = "mark_processing"]_vars

\* an invocation whose check failed has had its send accepted by the gateway
CheckErrorContinuesWitness ==
    \E t \in Tags :
        /\ tasks[t].chk = "Error"
        /\ tasks[t].wrote /\ tasks[t].fetched /\ tasks[t].gwAccepted

\* C38 (cache connection failure): a task that could not establish its cache
\* connection has rejected its delivery with requeue = true without calling
\* process_message: it read and wrote no idempotency entry, wrote no audit
\* row, published nothing to the DLQ and invoked no gateway; the step that
\* rejects changes none of those stores, and the task's end frees its slot
\* (while the dispatcher is alive).
ConnectFailureRequeues ==
    /\ [](\A t \in Tags :
            tasks[t].noConn =>
                /\ tasks[t].pc = "answered" /\ tasks[t].response = "requeue"
                /\ tasks[t].res = "none" /\ tasks[t].chk = "none"
                /\ ~tasks[t].wrote /\ tasks[t].audits = <<>>
                /\ ~tasks[t].published
                /\ ~tasks[t].fetched /\ ~tasks[t].gwInvoked)
    /\ [][\A t \in Tags :
            /\ ~tasks[t].noConn /\ tasks'[t].noConn =>
                  UNCHANGED <<idem, audit, dlq, accepted>>
            /\ tasks[t].noConn /\ ~tasks'[t].noConn /\ running'[tasks[t].w] =>
                  /\ tasks'[t].pc = "ended"
                  /\ permits'[tasks[t].w] = permits[tasks[t].w] + 1]_vars

\* a task has rejected its delivery with requeue after a failed connection
ConnectFailureWitness ==
    \E t \in Tags :
        /\ tasks[t].noConn
        /\ tasks[t].pc = "answered"
        /\ tasks[t].response = "requeue"
        /\ permits[tasks[t].w] = WorkerConcurrency - 1

\* the tasks of worker w inside process_message or between its return and
\* the end of the task
Processing(w) ==
    {t \in Tags : /\ tasks[t].w = w
                  /\ tasks[t].pc \in InProcess \cup {"respond", "answered"}
                  /\ ~tasks[t].noConn}

\* C35 (one process_message per worker): within one worker at most one task
\* is inside process_message at any time, whatever worker_concurrency is,
\* and that task holds the template-client mutex and the push-client mutex
\* from before process_message starts until after its ack or reject.
OneProcessPerWorker ==
    \A w \in Workers :
        /\ Cardinality(Processing(w)) <= 1
        /\ \A t \in Processing(w) : tmplLock[w] = t /\ fcmLock[w] = t

\* a task is inside process_message while another task of its worker holds
\* the other slot and waits for the template-client mutex
OneProcessPerWorkerWitness ==
    \E w \in Workers, t, u \in Tags :
        /\ t \in Processing(w) /\ tasks[t].pc \in InProcess
        /\ tasks[u].w = w /\ tasks[u].pc = "lock_template"
        /\ permits[w] = 0

\* the locks are taken in the order permit, template-client mutex,
\* push-client mutex: the holder of a later one holds the earlier ones
LockOrder ==
    \A w \in Workers, t \in Tags :
        /\ fcmLock[w] = t => tmplLock[w] = t
        /\ tmplLock[w] = t => t \in Holders(w)

\* a task that has ended holds no mutex, and the free permits count it out
ReleasedAtEnd ==
    \A w \in Workers :
        /\ \A t \in Tags : ~Alive(t) => tmplLock[w] # t /\ fcmLock[w] # t
        /\ permits[w] = WorkerConcurrency - Cardinality(Holders(w))

\* while a task is alive some task can take a step
NoDeadlock == (\E t \in Tags : Alive(t)) => ENABLED TaskSteps

\* C36 (deadlock freedom): every task takes the permit, then the
\* template-client mutex, then the push-client mutex, and releases all three
\* when it ends; no reachable state is a deadlock; and under fair scheduling,
\* with every external call returning, every spawned task eventually answers
\* its delivery with an ack or a reject (unless its stream ends first).
DeadlockFreedom ==
    /\ [](LockOrder /\ ReleasedAtEnd /\ NoDeadlock)
    /\ \A t \in Tags :
          tasks[t].pc = "acquire" ~> tasks[t].pc \in {"answered", "cancelled"}

====
